---- MODULE Spec2Model ----
(***************************************************************************)
(* The client-side data cache of the CMS dashboard: the Redux store's      *)
(* entity slices (pages, tracks, playlists, contacts, images, audios,      *)
(* dashboard), the thunks that fill them, and the list views whose effects *)
(* decide when a fetch is dispatched.                                      *)
(*                                                                         *)
(* A slice is its reducer, an operator from (state, action) to the next    *)
(* state, as in the source.  A thunk is two steps: its dispatch (the       *)
(* pending action is reduced, the request joins `inflight`) and its        *)
(* completion (the server's answer is an input; the fulfilled or rejected  *)
(* action is reduced, and the handler that awaited the thunk goes on).     *)
(*                                                                         *)
(* Time is counted in minutes: Date.now() is `now`; a timestamp of 0       *)
(* stands for null (the clock starts at 1).                                *)
(***************************************************************************)
EXTENDS Integers, Sequences, FiniteSets, TLC

VARIABLES
    store,      \* the Redux state: one record per slice
    inflight,   \* the thunks dispatched and not yet completed, in dispatch order
    action,     \* the Redux action most recently handled by the store
    now,        \* Date.now(), in minutes
    focus,      \* the list view this behaviour exercises (slices share no reducer)
    lanes,      \* how many requests may be in flight when the user next acts
    fetched,    \* history: the argument of the last list fetch that succeeded
    view,       \* that view: mounted or not, its useState values, its effect flag
    session     \* AuthProvider: the stored token, its state, its token verification

vars == <<store, inflight, action, now, focus, lanes, fetched, view, session>>

----------------------------------------------------------------------------
\* Bounds of the model.

MaxId == 3          \* item keys are 1..MaxId
MaxFetch == 2       \* longest list the server returns in one response
MaxPage == 2        \* page numbers are 1..MaxPage
MaxTime == 7        \* the clock stops there
MaxItems == 3       \* load-more stops at a cached list of that length

----------------------------------------------------------------------------
\* Values.

Null == "<null>"            \* null, for a string-valued field
Undef == "<undefined>"      \* undefined, for a string-valued field
NoTime == 0                 \* null, for a timestamp

Ids == 1..MaxId
Item(i, r) == [_id |-> i, rev |-> r]    \* rev: 0 as listed, 1 as edited
Image(i) == [public_id |-> i]

PageNumbers == 1..MaxPage
PageSizes == {10, 25}
Terms == {"", "a"}          \* committed search terms and text filters
ErrorMessages == {Undef, "Network Error"}   \* action.error.message of a rejection

\* JavaScript's `x || y` on strings: undefined, null and '' are falsy.
Falsy(x) == x \in {Undef, Null, ""}
OrElse(x, y) == IF Falsy(x) THEN y ELSE x

\* A destructured parameter with a default: `{ x = d }`.
Default(x, d) == IF x = Undef THEN d ELSE x

\* Array.prototype.filter on an identity key: the items whose key is not id.
Without(s, key, id) == SelectSeq(s, LAMBDA x : x[key] # id)

\* Array.prototype.findIndex on _id, 1-based; 0 stands for -1.
FindIndex(s, id) ==
    IF \E k \in 1..Len(s) : s[k]._id = id
    THEN CHOOSE k \in 1..Len(s) : s[k]._id = id /\ \A j \in 1..(k - 1) : s[j]._id # id
    ELSE 0

\* The object spread {...a, ...b}.
Spread(a, b) ==
    [k \in DOMAIN a \cup DOMAIN b |-> IF k \in DOMAIN b THEN b[k] ELSE a[k]]

Remove(s, k) == SubSeq(s, 1, k - 1) \o SubSeq(s, k + 1, Len(s))
Listed(items, id) == \E k \in 1..Len(items) : items[k]._id = id

----------------------------------------------------------------------------
\* The servers.

\* The paginated list response of the backend to a request for (page, limit):
\* the items and data.pagination.  The server either echoes the page and limit
\* asked for, or (echo = FALSE) answers with its first page and its own limit;
\* it counts the items it lists and the pages up to the one it answers.
ListResponse(items, echo, page, limit) ==
    [items |-> items,
     pagination |-> [currentPage |-> IF echo THEN page ELSE 1,
                     itemsPerPage |-> IF echo THEN limit ELSE 10,
                     totalItems |-> Len(items),
                     totalPages |-> IF items = <<>> THEN 0 ELSE IF echo THEN page ELSE 1]]

\* What the server lists: the first items of its catalogue.
Catalogue == [i \in 1..MaxFetch |-> Item(i, 0)]
ServerLists == {SubSeq(Catalogue, 1, n) : n \in 0..MaxFetch}

ListResponses(lists, page, limit) ==
    {ListResponse(items, echo, page, limit) : items \in lists, echo \in BOOLEAN}

\* What the server creates: an item with a key no listed item has.
CreatedItem == Item(MaxId, 0)

\* What GET /images or /audios of the media host answers: a page of the library
\* (its items from `from` on, at most up to `to`), and a cursor for the next
\* page or none.
MediaLibrary == [i \in Ids |-> Image(i)]
MediaPages(from, to) ==
    {[items |-> SubSeq(MediaLibrary, from, n), next_cursor |-> c, has_more |-> c # Undef] :
        n \in (from - 1)..to, c \in {"c1", Undef}}

\* getUploadedImages: the response mapped to {images, nextCursor, hasMore}; any
\* failure of the request is caught and answered with an empty page.
getUploadedImages(ok, resp) ==
    IF ok
    THEN [images |-> resp.items, nextCursor |-> resp.next_cursor, hasMore |-> resp.has_more]
    ELSE [images |-> <<>>, nextCursor |-> Undef, hasMore |-> FALSE]

\* getUploadedAudios: as getUploadedImages.
getUploadedAudios(ok, resp) ==
    IF ok
    THEN [audios |-> resp.items, nextCursor |-> resp.next_cursor, hasMore |-> resp.has_more]
    ELSE [audios |-> <<>>, nextCursor |-> Undef, hasMore |-> FALSE]

----------------------------------------------------------------------------
\* AuthContext: the session.

\* A bearer token, by what the client reads of it: whether its payload decodes,
\* and the exp claim of the payload (in the unit of the clock).
Token(decodable, exp) == [decodable |-> decodable, exp |-> exp]
Tokens == {Token(FALSE, 0), Token(TRUE, 0), Token(TRUE, MaxTime + 1)}
IssuedToken == Token(TRUE, MaxTime + 1)       \* what a login answers

\* isTokenExpired: the exp claim is past, or the payload does not decode.
isTokenExpired(token, t) == IF token.decodable THEN token.exp < t ELSE TRUE

\* The last thing the session handled: a bootstrap, the answer to a verify
\* request (with the retryCount of the request), a retry, a login, a logout,
\* or a 401 of an API call.  (A history of the model, as `action` is.)
Event(type, status, retryCount) ==
    [type |-> type, status |-> status, retryCount |-> retryCount]

\* No verification under way; a verify request in flight; a retry scheduled.
\* retryCount is the argument of the verifyToken call in flight or scheduled,
\* delay the seconds of its timer.
NoVerify == [phase |-> "idle", token |-> IssuedToken, retryCount |-> 0, delay |-> 0]
VerifyRequest(token, retryCount) ==
    [phase |-> "request", token |-> token, retryCount |-> retryCount, delay |-> 0]
VerifyTimer(token, retryCount, delay) ==
    [phase |-> "timer", token |-> token, retryCount |-> retryCount, delay |-> delay]

\* AuthProvider as constructed, over a localStorage that holds the tokens of
\* `storage` under 'da-cms-token' (none or one).  `sent` counts the verify
\* requests sent since the page was loaded.
initialSession(storage) ==
    [storage |-> storage, isAuthenticated |-> FALSE, user |-> Null, loading |-> TRUE,
     booted |-> FALSE, verify |-> NoVerify, sent |-> 0,
     event |-> Event("@@INIT", "none", 0)]

\* The session of a user who logged in.
loggedIn ==
    [initialSession(<<IssuedToken>>) EXCEPT !.isAuthenticated = TRUE, !.user = "admin",
                                            !.loading = FALSE, !.booted = TRUE]

\* What a verify request may come to: the user of the token, a body without a
\* user, a 401, another error status, no response, or the 5 s timeout.
VerifyResponses == {"user", "no user", "401", "500", "network error", "timeout"}

MaxRetries == 2     \* retryCount < 2

\* verifyToken if any failure discarded the token.
verifyToken_DroppingToken(s, token, retryCount, response) ==
    IF response = "user"
    THEN [s EXCEPT !.user = "admin", !.isAuthenticated = TRUE, !.loading = FALSE,
                   !.verify = NoVerify]
    ELSE IF response = "no user"
    THEN [s EXCEPT !.loading = FALSE, !.verify = NoVerify]
    ELSE IF response = "401"
    THEN [s EXCEPT !.storage = <<>>, !.loading = FALSE, !.verify = NoVerify]
    ELSE IF retryCount < MaxRetries
    THEN [s EXCEPT !.storage = <<>>, !.loading = FALSE,
                   !.verify = VerifyTimer(token, retryCount + 1, 2 ^ retryCount)]
    ELSE [s EXCEPT !.storage = <<>>, !.loading = FALSE, !.verify = NoVerify]

\* verifyToken if it retried without a cap.
verifyToken_AlwaysRetrying(s, token, retryCount, response) ==
    IF response = "user"
    THEN [s EXCEPT !.user = "admin", !.isAuthenticated = TRUE, !.loading = FALSE,
                   !.verify = NoVerify]
    ELSE IF response = "no user"
    THEN [s EXCEPT !.loading = FALSE, !.verify = NoVerify]
    ELSE IF response = "401"
    THEN [s EXCEPT !.storage = <<>>, !.loading = FALSE, !.verify = NoVerify]
    ELSE [s EXCEPT !.loading = FALSE,
                   !.verify = VerifyTimer(token, retryCount + 1, 2 ^ retryCount)]

\* verifyToken, from the answer to its request on: the session it leaves.
verifyToken(s, token, retryCount, response) ==
    IF response = "user"
    THEN [s EXCEPT !.user = "admin", !.isAuthenticated = TRUE, !.loading = FALSE,
                   !.verify = NoVerify]
    ELSE IF response = "no user"
    THEN [s EXCEPT !.loading = FALSE, !.verify = NoVerify]
    ELSE IF response = "401"
    THEN [s EXCEPT !.storage = <<>>, !.loading = FALSE, !.verify = NoVerify]
    ELSE IF retryCount < MaxRetries
    THEN [s EXCEPT !.loading = FALSE,
                   !.verify = VerifyTimer(token, retryCount + 1, 2 ^ retryCount)]
    ELSE [s EXCEPT !.loading = FALSE, !.verify = NoVerify]

\* login, from the answer to its request on.
login(s, response) ==
    IF response = "token and user"
    THEN [s EXCEPT !.storage = <<IssuedToken>>, !.user = "admin", !.isAuthenticated = TRUE]
    ELSE s

\* logout.
logout(s) == [s EXCEPT !.isAuthenticated = FALSE, !.user = Null, !.storage = <<>>]

\* ProtectedRoute: what it renders.
ProtectedRoute(s) ==
    IF s.loading THEN "skeleton"
    ELSE IF ~s.isAuthenticated THEN "login"
    ELSE "children"

\* The response interceptor if it passed every error on.
responseInterceptor_Passing(status, url) == FALSE

\* The response interceptor of the API client: whether it removes the token
\* and reloads the page, for an error response of that status to a request of
\* that URL.
responseInterceptor(status, url) == status = "401" /\ url # "/auth/verify"

\* The URL the API client requests for a list fetch.
Url(type) ==
    CASE type = "tracks/fetchTracks" -> "/tracks"
      [] type = "playlists/fetchPlaylists" -> "/playlists"
      [] type \in {"pages/fetchPages", "dashboard/fetchDashboardData"} -> "/pages"
      [] type = "contacts/fetchContacts" -> "/contacts"
      [] type = "images/fetchImages" -> "/images"
      [] type = "audios/fetchAudios" -> "/audios"
      [] type = "audios/fetchAudioFolders" -> "/audio-folders"

----------------------------------------------------------------------------
\* Reducers shared in shape by the slices.

\* A pending reducer: loading = true, error = null.
pending(state) == [state EXCEPT !.loading = TRUE, !.error = Null]

\* A rejected reducer that left the spinner on.
rejected_StillLoading(state, act, fallback) ==
    [state EXCEPT !.error = OrElse(act.error.message, fallback)]

\* A rejected reducer: loading = false, error = the failure's message or the
\* case's own fallback.
rejected(state, act, fallback) ==
    [state EXCEPT !.loading = FALSE, !.error = OrElse(act.error.message, fallback)]

\* setPagination: the page and the page size of the slice.
setPagination(state, act) ==
    [state EXCEPT !.pagination.page = act.payload.page,
                  !.pagination.pageSize = act.payload.pageSize]

----------------------------------------------------------------------------
\* tracksSlice

tracks_initialState ==
    [items |-> <<>>, loading |-> FALSE, error |-> Null,
     pagination |-> [page |-> 1, pageSize |-> 10, totalItems |-> 0, totalPages |-> 0],
     searchTerm |-> "", categoryFilter |-> "", authorFilter |-> "",
     lastFetched |-> NoTime, lastFetchParams |-> <<>>]

\* The payload creator of fetchTracks: arg is the thunk's argument (its string
\* fields may be undefined and then default to ''), resp the server's response.
fetchTracks(arg, resp) ==
    [tracks |-> resp.items,
     pagination |-> [page |-> resp.pagination.currentPage,
                     pageSize |-> resp.pagination.itemsPerPage,
                     totalItems |-> resp.pagination.totalItems,
                     totalPages |-> resp.pagination.totalPages],
     searchTerm |-> Default(arg.search, ""),
     categoryFilter |-> Default(arg.category, ""),
     authorFilter |-> Default(arg.author, "")]

fetchTracks_fulfilled(state, act, t) ==
    [state EXCEPT !.loading = FALSE,
                  !.items = act.payload.tracks,
                  !.pagination = act.payload.pagination,
                  !.searchTerm = act.payload.searchTerm,
                  !.categoryFilter = OrElse(act.payload.categoryFilter, ""),
                  !.authorFilter = OrElse(act.payload.authorFilter, ""),
                  !.lastFetched = t,
                  !.lastFetchParams = <<act.meta.arg>>]

\* createTrack.fulfilled if it put the new track last.
createTrack_fulfilled_Appending(state, act) ==
    [state EXCEPT !.loading = FALSE,
                  !.items = state.items \o <<act.payload>>,
                  !.pagination.totalItems = state.pagination.totalItems + 1]

createTrack_fulfilled(state, act) ==
    [state EXCEPT !.loading = FALSE,
                  !.items = <<act.payload>> \o state.items,
                  !.pagination.totalItems = state.pagination.totalItems + 1]

\* updateTrack.fulfilled if it listed a track it did not find.
updateTrack_fulfilled_Upserting(state, act) ==
    LET index == FindIndex(state.items, act.payload._id)
    IN  [state EXCEPT !.loading = FALSE,
                      !.items = IF index # 0
                                THEN [state.items EXCEPT ![index] = act.payload]
                                ELSE <<act.payload>> \o state.items]

\* updateTrack.fulfilled: the track is replaced where it is listed, if it is.
updateTrack_fulfilled(state, act) ==
    LET index == FindIndex(state.items, act.payload._id)
    IN  [state EXCEPT !.loading = FALSE,
                      !.items = IF index # 0
                                THEN [state.items EXCEPT ![index] = act.payload]
                                ELSE state.items]

\* deleteTrack.fulfilled if it left totalItems alone.
deleteTrack_fulfilled_SameCount(state, act) ==
    [state EXCEPT !.loading = FALSE,
                  !.items = Without(state.items, "_id", act.payload)]

deleteTrack_fulfilled(state, act) ==
    [state EXCEPT !.loading = FALSE,
                  !.items = Without(state.items, "_id", act.payload),
                  !.pagination.totalItems = state.pagination.totalItems - 1]

\* The slice's reducer; t is what Date.now() answers.
tracksReducer(state, act, t) ==
    CASE act.type = "tracks/setPagination" -> setPagination(state, act)
      [] act.type = "tracks/setSearchTerm" -> [state EXCEPT !.searchTerm = act.payload]
      [] act.type = "tracks/setCategoryFilter" -> [state EXCEPT !.categoryFilter = act.payload]
      [] act.type = "tracks/setAuthorFilter" -> [state EXCEPT !.authorFilter = act.payload]
      [] act.type \in {"tracks/fetchTracks/pending", "tracks/createTrack/pending",
                       "tracks/updateTrack/pending", "tracks/deleteTrack/pending"} ->
            pending(state)
      [] act.type = "tracks/fetchTracks/fulfilled" -> fetchTracks_fulfilled(state, act, t)
      [] act.type = "tracks/fetchTracks/rejected" -> rejected(state, act, "Failed to fetch tracks")
      [] act.type = "tracks/createTrack/fulfilled" -> createTrack_fulfilled(state, act)
      [] act.type = "tracks/createTrack/rejected" -> rejected(state, act, "Failed to create track")
      [] act.type = "tracks/updateTrack/fulfilled" -> updateTrack_fulfilled(state, act)
      [] act.type = "tracks/updateTrack/rejected" -> rejected(state, act, "Failed to update track")
      [] act.type = "tracks/deleteTrack/fulfilled" -> deleteTrack_fulfilled(state, act)
      [] act.type = "tracks/deleteTrack/rejected" -> rejected(state, act, "Failed to delete track")
      [] OTHER -> state

----------------------------------------------------------------------------
\* playlistsSlice

playlists_initialState ==
    [items |-> <<>>, loading |-> FALSE, error |-> Null,
     pagination |-> [page |-> 1, pageSize |-> 10, totalItems |-> 0, totalPages |-> 0],
     searchTerm |-> "", createdByFilter |-> "", isPublicFilter |-> "", tagFilter |-> "",
     lastFetched |-> NoTime, lastFetchParams |-> <<>>]

\* The payload creator of fetchPlaylists; arg.isPublic is a boolean, written
\* "TRUE" or "FALSE", or undefined; toString renders it as 'true' or 'false'.
fetchPlaylists(arg, resp) ==
    [playlists |-> resp.items,
     pagination |-> [page |-> resp.pagination.currentPage,
                     pageSize |-> resp.pagination.itemsPerPage,
                     totalItems |-> resp.pagination.totalItems,
                     totalPages |-> resp.pagination.totalPages],
     searchTerm |-> Default(arg.search, ""),
     createdByFilter |-> Default(arg.createdBy, ""),
     isPublicFilter |-> IF arg.isPublic # Undef
                        THEN (IF arg.isPublic = "TRUE" THEN "true" ELSE "false")
                        ELSE "",
     tagFilter |-> Default(arg.tag, "")]

fetchPlaylists_fulfilled(state, act, t) ==
    [state EXCEPT !.loading = FALSE,
                  !.items = act.payload.playlists,
                  !.pagination = act.payload.pagination,
                  !.searchTerm = act.payload.searchTerm,
                  !.createdByFilter = OrElse(act.payload.createdByFilter, ""),
                  !.isPublicFilter = OrElse(act.payload.isPublicFilter, ""),
                  !.tagFilter = OrElse(act.payload.tagFilter, ""),
                  !.lastFetched = t,
                  !.lastFetchParams = <<act.meta.arg>>]

createPlaylist_fulfilled(state, act) ==
    [state EXCEPT !.loading = FALSE,
                  !.items = <<act.payload>> \o state.items,
                  !.pagination.totalItems = state.pagination.totalItems + 1]

updatePlaylist_fulfilled(state, act) ==
    LET index == FindIndex(state.items, act.payload._id)
    IN  [state EXCEPT !.loading = FALSE,
                      !.items = IF index # 0
                                THEN [state.items EXCEPT ![index] = act.payload]
                                ELSE state.items]

deletePlaylist_fulfilled(state, act) ==
    [state EXCEPT !.loading = FALSE,
                  !.items = Without(state.items, "_id", act.payload),
                  !.pagination.totalItems = state.pagination.totalItems - 1]

\* The slice's reducer.  The fulfilled cases of addTracksToPlaylist and
\* removeTrackFromPlaylist are written as that of updatePlaylist.
playlistsReducer(state, act, t) ==
    CASE act.type = "playlists/setPagination" -> setPagination(state, act)
      [] act.type = "playlists/setSearchTerm" -> [state EXCEPT !.searchTerm = act.payload]
      [] act.type = "playlists/setCreatedByFilter" ->
            [state EXCEPT !.createdByFilter = act.payload]
      [] act.type = "playlists/setIsPublicFilter" ->
            [state EXCEPT !.isPublicFilter = act.payload]
      [] act.type \in {"playlists/fetchPlaylists/pending", "playlists/createPlaylist/pending",
                       "playlists/updatePlaylist/pending", "playlists/deletePlaylist/pending",
                       "playlists/addTracksToPlaylist/pending",
                       "playlists/removeTrackFromPlaylist/pending"} ->
            pending(state)
      [] act.type = "playlists/fetchPlaylists/fulfilled" ->
            fetchPlaylists_fulfilled(state, act, t)
      [] act.type = "playlists/fetchPlaylists/rejected" ->
            rejected(state, act, "Failed to fetch playlists")
      [] act.type = "playlists/createPlaylist/fulfilled" -> createPlaylist_fulfilled(state, act)
      [] act.type = "playlists/createPlaylist/rejected" ->
            rejected(state, act, "Failed to create playlist")
      [] act.type = "playlists/updatePlaylist/fulfilled" -> updatePlaylist_fulfilled(state, act)
      [] act.type = "playlists/updatePlaylist/rejected" ->
            rejected(state, act, "Failed to update playlist")
      [] act.type = "playlists/deletePlaylist/fulfilled" -> deletePlaylist_fulfilled(state, act)
      [] act.type = "playlists/deletePlaylist/rejected" ->
            rejected(state, act, "Failed to delete playlist")
      [] act.type \in {"playlists/addTracksToPlaylist/fulfilled",
                       "playlists/removeTrackFromPlaylist/fulfilled"} ->
            updatePlaylist_fulfilled(state, act)
      [] act.type = "playlists/addTracksToPlaylist/rejected" ->
            rejected(state, act, "Failed to add tracks to playlist")
      [] act.type = "playlists/removeTrackFromPlaylist/rejected" ->
            rejected(state, act, "Failed to remove track from playlist")
      [] OTHER -> state

----------------------------------------------------------------------------
\* pagesSlice

pages_initialState ==
    [items |-> <<>>, loading |-> FALSE, error |-> Null,
     pagination |-> [page |-> 1, pageSize |-> 10, totalItems |-> 0, totalPages |-> 0],
     searchTerm |-> "", groupFilter |-> "", lastFetched |-> NoTime]

\* The payload creator of fetchPages.
fetchPages(arg, resp) ==
    [pages |-> resp.items,
     pagination |-> resp.pagination,
     searchTerm |-> Default(arg.search, ""),
     groupFilter |-> Default(arg.group, "")]

\* With cached items the list stays on screen while it is refetched.
fetchPages_pending(state) ==
    [state EXCEPT !.loading = (Len(state.items) = 0), !.error = Null]

fetchPages_fulfilled(state, act, t) ==
    [state EXCEPT !.loading = FALSE,
                  !.items = act.payload.pages,
                  !.pagination = [page |-> state.pagination.page,
                                  pageSize |-> state.pagination.pageSize,
                                  totalItems |-> act.payload.pagination.totalItems,
                                  totalPages |-> act.payload.pagination.totalPages],
                  !.searchTerm = act.payload.searchTerm,
                  !.groupFilter = act.payload.groupFilter,
                  !.lastFetched = t]

deletePage_fulfilled(state, act) ==
    [state EXCEPT !.items = Without(state.items, "_id", act.payload),
                  !.pagination.totalItems = state.pagination.totalItems - 1]

\* createPage.fulfilled if it kept the cache valid.
createPage_fulfilled_Kept(state) == state

\* createPage.fulfilled if it counted the new page as well.
createPage_fulfilled_Counting(state) ==
    [state EXCEPT !.lastFetched = NoTime,
                  !.pagination.totalItems = state.pagination.totalItems + 1]

\* createPage.fulfilled and updatePage.fulfilled: the cache is invalidated.
createPage_fulfilled(state) == [state EXCEPT !.lastFetched = NoTime]

pagesReducer(state, act, t) ==
    CASE act.type = "pages/setSearchTerm" ->
            [state EXCEPT !.searchTerm = act.payload, !.pagination.page = 1]
      [] act.type = "pages/setGroupFilter" ->
            [state EXCEPT !.groupFilter = act.payload, !.pagination.page = 1]
      [] act.type = "pages/setPagination" -> setPagination(state, act)
      [] act.type = "pages/clearPages" -> [state EXCEPT !.items = <<>>, !.lastFetched = NoTime]
      [] act.type = "pages/forceRefresh" -> [state EXCEPT !.lastFetched = NoTime]
      [] act.type = "pages/fetchPages/pending" -> fetchPages_pending(state)
      [] act.type = "pages/fetchPages/fulfilled" -> fetchPages_fulfilled(state, act, t)
      [] act.type = "pages/fetchPages/rejected" -> rejected(state, act, "Failed to fetch pages")
      [] act.type = "pages/deletePage/fulfilled" -> deletePage_fulfilled(state, act)
      [] act.type \in {"pages/createPage/fulfilled", "pages/updatePage/fulfilled"} ->
            createPage_fulfilled(state)
      [] OTHER -> state

\* The pagesSlice the cached PageList was written against: no group filter and
\* no forceRefresh (its state keeps groupFilter = '' here), every fetch shows
\* the spinner, and the server's pagination is spread over the client's; its
\* other cases read as those of pagesReducer.
pagesReducerOld(state, act, t) ==
    CASE act.type = "pages/fetchPages/pending" -> pending(state)
      [] act.type = "pages/fetchPages/fulfilled" ->
            [state EXCEPT !.loading = FALSE,
                          !.items = act.payload.pages,
                          !.pagination = Spread(state.pagination, act.payload.pagination),
                          !.searchTerm = act.payload.searchTerm,
                          !.lastFetched = t]
      [] act.type \in {"pages/setGroupFilter", "pages/forceRefresh"} -> state
      [] OTHER -> pagesReducer(state, act, t)

----------------------------------------------------------------------------
\* contactsSlice

contacts_initialState ==
    [items |-> <<>>, loading |-> FALSE, error |-> Null,
     pagination |-> [page |-> 1, pageSize |-> 10, totalItems |-> 0, totalPages |-> 0],
     searchTerm |-> "", lastFetched |-> NoTime]

\* The payload creator of fetchContacts; contactsAPI.getAll answers with
\* {data, page, totalPages, total, limit}.
fetchContacts(arg, resp) ==
    [contacts |-> resp.items,
     pagination |-> [currentPage |-> resp.pagination.currentPage,
                     totalPages |-> resp.pagination.totalPages,
                     totalItems |-> resp.pagination.totalItems,
                     itemsPerPage |-> resp.pagination.itemsPerPage],
     searchTerm |-> Default(arg.search, "")]

\* fetchContacts.fulfilled if it dropped the answer to a request for another
\* page than the one the list is on.
fetchContacts_fulfilled_LatestOnly(state, act, t) ==
    IF act.meta.arg.page # state.pagination.page
    THEN [state EXCEPT !.loading = FALSE]
    ELSE [state EXCEPT !.loading = FALSE,
                       !.items = act.payload.contacts,
                       !.pagination.totalItems = act.payload.pagination.totalItems,
                       !.pagination.totalPages = act.payload.pagination.totalPages,
                       !.searchTerm = act.payload.searchTerm,
                       !.lastFetched = t]

fetchContacts_fulfilled(state, act, t) ==
    [state EXCEPT !.loading = FALSE,
                  !.items = act.payload.contacts,
                  !.pagination = [page |-> state.pagination.page,
                                  pageSize |-> state.pagination.pageSize,
                                  totalItems |-> act.payload.pagination.totalItems,
                                  totalPages |-> act.payload.pagination.totalPages],
                  !.searchTerm = act.payload.searchTerm,
                  !.lastFetched = t]

deleteContactById_fulfilled(state, act) ==
    LET filteredItems == Without(state.items, "_id", act.payload)
    IN  [state EXCEPT !.items = filteredItems,
                      !.pagination.totalItems = state.pagination.totalItems - 1,
                      !.pagination.page =
                          IF Len(filteredItems) = 0 /\ state.pagination.page > 1
                          THEN state.pagination.page - 1
                          ELSE state.pagination.page]

contactsReducer(state, act, t) ==
    CASE act.type = "contacts/setSearchTerm" ->
            [state EXCEPT !.searchTerm = act.payload, !.pagination.page = 1]
      [] act.type = "contacts/setPagination" -> setPagination(state, act)
      [] act.type = "contacts/clearContacts" ->
            [state EXCEPT !.items = <<>>, !.lastFetched = NoTime]
      [] act.type = "contacts/clearError" -> [state EXCEPT !.error = Null]
      [] act.type = "contacts/fetchContacts/pending" -> pending(state)
      [] act.type = "contacts/fetchContacts/fulfilled" -> fetchContacts_fulfilled(state, act, t)
      [] act.type = "contacts/fetchContacts/rejected" ->
            rejected(state, act, "Failed to fetch contacts")
      [] act.type = "contacts/deleteContact/pending" -> [state EXCEPT !.error = Null]
      [] act.type = "contacts/deleteContact/fulfilled" -> deleteContactById_fulfilled(state, act)
      [] act.type = "contacts/deleteContact/rejected" ->
            [state EXCEPT !.error = OrElse(act.error.message, "Failed to delete contact")]
      [] OTHER -> state

----------------------------------------------------------------------------
\* imagesSlice

images_initialState ==
    [items |-> <<>>, loading |-> FALSE, loadingMore |-> FALSE, error |-> Null,
     lastFetched |-> NoTime, nextCursor |-> Null, hasMore |-> FALSE]

fetchImages_fulfilled(state, act, t) ==
    [state EXCEPT !.loading = FALSE,
                  !.items = act.payload.images,
                  !.nextCursor = OrElse(act.payload.nextCursor, Null),
                  !.hasMore = act.payload.hasMore,
                  !.lastFetched = t]

\* loadMoreImages.fulfilled if it showed the new page in place of the list.
loadMoreImages_fulfilled_Replacing(state, act) ==
    [state EXCEPT !.loadingMore = FALSE,
                  !.items = act.payload.images,
                  !.nextCursor = OrElse(act.payload.nextCursor, Null),
                  !.hasMore = act.payload.hasMore]

\* loadMoreImages.fulfilled: the page is appended, the cursor taken over.
loadMoreImages_fulfilled(state, act) ==
    [state EXCEPT !.loadingMore = FALSE,
                  !.items = state.items \o act.payload.images,
                  !.nextCursor = OrElse(act.payload.nextCursor, Null),
                  !.hasMore = act.payload.hasMore]

deleteImage_fulfilled(state, act) ==
    [state EXCEPT !.loading = FALSE,
                  !.items = Without(state.items, "public_id", act.payload)]

imagesReducer(state, act, t) ==
    CASE act.type = "images/clearImages" ->
            [state EXCEPT !.items = <<>>, !.lastFetched = NoTime]
      [] act.type \in {"images/fetchImages/pending", "images/deleteImage/pending"} ->
            pending(state)
      [] act.type = "images/fetchImages/fulfilled" -> fetchImages_fulfilled(state, act, t)
      [] act.type = "images/fetchImages/rejected" ->
            rejected(state, act, "Failed to fetch images")
      [] act.type = "images/loadMoreImages/pending" ->
            [state EXCEPT !.loadingMore = TRUE, !.error = Null]
      [] act.type = "images/loadMoreImages/fulfilled" -> loadMoreImages_fulfilled(state, act)
      [] act.type = "images/loadMoreImages/rejected" ->
            [state EXCEPT !.loadingMore = FALSE,
                          !.error = OrElse(act.error.message, "Failed to load more images")]
      [] act.type = "images/deleteImage/fulfilled" -> deleteImage_fulfilled(state, act)
      [] act.type = "images/deleteImage/rejected" ->
            rejected(state, act, "Failed to delete image")
      [] OTHER -> state

----------------------------------------------------------------------------
\* audiosSlice

audios_initialState ==
    [items |-> <<>>, folders |-> <<>>, loading |-> FALSE, loadingFolders |-> FALSE,
     loadingMore |-> FALSE, error |-> Null, lastFetched |-> NoTime,
     lastFetchedFolders |-> NoTime, nextCursor |-> Null, hasMore |-> FALSE,
     viewMode |-> "folders"]

fetchAudios_fulfilled(state, act, t) ==
    [state EXCEPT !.loading = FALSE,
                  !.items = act.payload.audios,
                  !.nextCursor = OrElse(act.payload.nextCursor, Null),
                  !.hasMore = act.payload.hasMore,
                  !.lastFetched = t]

loadMoreAudios_fulfilled(state, act) ==
    [state EXCEPT !.loadingMore = FALSE,
                  !.items = state.items \o act.payload.audios,
                  !.nextCursor = OrElse(act.payload.nextCursor, Null),
                  !.hasMore = act.payload.hasMore]

fetchAudioFolders_fulfilled(state, act, t) ==
    [state EXCEPT !.loadingFolders = FALSE,
                  !.folders = act.payload.folders,
                  !.lastFetchedFolders = t]

\* The slice's reducer (the cases of deleteAudio and removeAudioLocally, which
\* no view dispatches, are left out).
audiosReducer(state, act, t) ==
    CASE act.type = "audios/clearAudios" ->
            [state EXCEPT !.items = <<>>, !.lastFetched = NoTime]
      [] act.type = "audios/setViewMode" -> [state EXCEPT !.viewMode = act.payload]
      [] act.type = "audios/fetchAudios/pending" -> pending(state)
      [] act.type = "audios/fetchAudios/fulfilled" -> fetchAudios_fulfilled(state, act, t)
      [] act.type = "audios/fetchAudios/rejected" ->
            rejected(state, act, "Failed to fetch audios")
      [] act.type = "audios/loadMoreAudios/pending" ->
            [state EXCEPT !.loadingMore = TRUE, !.error = Null]
      [] act.type = "audios/loadMoreAudios/fulfilled" -> loadMoreAudios_fulfilled(state, act)
      [] act.type = "audios/loadMoreAudios/rejected" ->
            [state EXCEPT !.loadingMore = FALSE,
                          !.error = OrElse(act.error.message, "Failed to load more audios")]
      [] act.type = "audios/fetchAudioFolders/pending" ->
            [state EXCEPT !.loadingFolders = TRUE, !.error = Null]
      [] act.type = "audios/fetchAudioFolders/fulfilled" ->
            fetchAudioFolders_fulfilled(state, act, t)
      [] act.type = "audios/fetchAudioFolders/rejected" ->
            [state EXCEPT !.loadingFolders = FALSE,
                          !.error = OrElse(act.error.message, "Failed to fetch audio folders")]
      [] OTHER -> state

----------------------------------------------------------------------------
\* dashboardSlice

dashboard_initialState ==
    [recentPages |-> <<>>, totalPages |-> 0, loading |-> FALSE, error |-> Null,
     lastFetched |-> NoTime]

\* The payload creator of fetchDashboardData.
fetchDashboardData(resp) ==
    [recentPages |-> resp.items, totalPages |-> resp.pagination.totalItems]

fetchDashboardData_fulfilled(state, act, t) ==
    [state EXCEPT !.loading = FALSE,
                  !.recentPages = act.payload.recentPages,
                  !.totalPages = act.payload.totalPages,
                  !.lastFetched = t]

dashboardReducer(state, act, t) ==
    CASE act.type = "dashboard/clearDashboardData" ->
            [state EXCEPT !.recentPages = <<>>, !.totalPages = 0, !.lastFetched = NoTime]
      [] act.type = "dashboard/fetchDashboardData/pending" -> pending(state)
      [] act.type = "dashboard/fetchDashboardData/fulfilled" ->
            fetchDashboardData_fulfilled(state, act, t)
      [] act.type = "dashboard/fetchDashboardData/rejected" ->
            rejected(state, act, "Failed to fetch dashboard data")
      [] OTHER -> state

----------------------------------------------------------------------------
\* The store, the thunk lifecycle and the views' effect scheduling.

\* The list views.  "pagesCached" is the PageList that keeps the list cached
\* and filters it in the browser; "pages" the one that searches on the server.
Views ==
    {"tracks", "playlists", "pages", "pagesCached", "contacts", "images", "audios",
     "dashboard"}

initialStore ==
    [tracks |-> tracks_initialState, playlists |-> playlists_initialState,
     pages |-> pages_initialState, contacts |-> contacts_initialState,
     images |-> images_initialState, audios |-> audios_initialState,
     dashboard |-> dashboard_initialState]

\* The root reducer: every slice reducer sees every action.
rootReducer(st, act, t) ==
    [tracks |-> tracksReducer(st.tracks, act, t),
     playlists |-> playlistsReducer(st.playlists, act, t),
     pages |-> IF focus = "pagesCached"
               THEN pagesReducerOld(st.pages, act, t)
               ELSE pagesReducer(st.pages, act, t),
     contacts |-> contactsReducer(st.contacts, act, t),
     images |-> imagesReducer(st.images, act, t),
     audios |-> audiosReducer(st.audios, act, t),
     dashboard |-> dashboardReducer(st.dashboard, act, t)]

\* The store after the actions of `acts` were dispatched in turn.
RECURSIVE ReduceAll(_, _)
ReduceAll(st, acts) ==
    IF acts = <<>> THEN st ELSE ReduceAll(rootReducer(st, Head(acts), now), Tail(acts))

\* The slice behind the view in focus.
Own(st) == IF focus = "pagesCached" THEN st.pages ELSE st[focus]

\* What that slice caches of the server's list: the items and the pagination.
Cached(st) ==
    CASE focus = "dashboard" ->
            [items |-> st.dashboard.recentPages, pagination |-> st.dashboard.totalPages]
      [] focus \in {"images", "audios"} ->
            [items |-> Own(st).items,
             pagination |-> <<Own(st).nextCursor, Own(st).hasMore>>]
      [] OTHER -> [items |-> Own(st).items, pagination |-> Own(st).pagination]

\* A list view: mounted or not, its useState values (PageList and ContactList
\* keep the committed search term and group filter there), and whether its fetch
\* effect is due (React runs an effect after the render in which one of its
\* dependencies changed, and on mount, before the next event is handled).
initialView ==
    [mounted |-> FALSE, effect |-> FALSE,
     local |-> [searchTerm |-> "", selectedGroupFilter |-> ""]]

Init ==
    /\ focus \in Views
    /\ store = initialStore
    /\ inflight = <<>>
    /\ action = [type |-> "@@INIT"]
    /\ now = 1
    /\ lanes = 1
    /\ fetched = <<>>
    /\ view = initialView
    /\ session = loggedIn

\* As Init, with a user who does not wait for a request before the next click.
RaceInit ==
    /\ focus \in Views
    /\ store = initialStore
    /\ inflight = <<>>
    /\ action = [type |-> "@@INIT"]
    /\ now = 1
    /\ lanes = 2
    /\ fetched = <<>>
    /\ view = initialView
    /\ session = loggedIn

Idle == ~view.effect                 \* no effect is due: the next event may be handled
Free == Len(inflight) < lanes        \* the user acts
Ready(v) == focus = v /\ view.mounted /\ Idle /\ Free     \* on the view v
Closed(v) == focus = v /\ ~view.mounted /\ Free           \* on a form of v

\* The dependency list of the view's fetch effect.
Deps(st, local) ==
    CASE focus = "tracks" ->
            <<st.tracks.pagination.page, st.tracks.pagination.pageSize,
              st.tracks.searchTerm, st.tracks.categoryFilter, st.tracks.authorFilter,
              st.tracks.lastFetched, st.tracks.lastFetchParams>>
      [] focus = "playlists" ->
            <<st.playlists.pagination.page, st.playlists.pagination.pageSize,
              st.playlists.searchTerm, st.playlists.createdByFilter,
              st.playlists.isPublicFilter, st.playlists.tagFilter,
              st.playlists.lastFetched, st.playlists.lastFetchParams>>
      [] focus = "pages" ->
            <<st.pages.pagination.page, st.pages.pagination.pageSize,
              local.searchTerm, local.selectedGroupFilter>>
      [] focus = "pagesCached" ->
            <<st.pages.pagination.page, st.pages.pagination.pageSize, st.pages.lastFetched>>
      [] focus = "contacts" ->
            <<st.contacts.pagination.page, st.contacts.pagination.pageSize,
              local.searchTerm>>
      [] focus = "images" -> <<st.images.lastFetched>>
      [] focus = "audios" ->
            <<st.audios.lastFetched, st.audios.lastFetchedFolders, st.audios.viewMode>>
      [] focus = "dashboard" -> <<st.dashboard.lastFetched>>

\* The actions that assign Date.now() to a timestamp an effect depends on: no
\* two of them see the same millisecond, so the dependency changes even when
\* the minute does not.
Stamps(act) ==
    /\ focus \notin {"pages", "contacts"}
    /\ act.type \in {"tracks/fetchTracks/fulfilled", "playlists/fetchPlaylists/fulfilled",
                     "pages/fetchPages/fulfilled", "images/fetchImages/fulfilled",
                     "audios/fetchAudios/fulfilled", "audios/fetchAudioFolders/fulfilled",
                     "dashboard/fetchDashboardData/fulfilled"}

\* The store handled `act` and is `st`, the view's state is `local`: the
\* mounted view re-renders and its effect is due if a dependency changed.
Settle(st, act, local) ==
    /\ store' = st
    /\ action' = act
    /\ view' = [view EXCEPT !.local = local,
                            !.effect = /\ view.mounted
                                       /\ \/ Deps(st, local) # Deps(store, view.local)
                                          \/ Stamps(act)]

\* A handler dispatches the plain actions `acts` and sets its view's state.
Dispatch(acts, local) ==
    /\ Settle(ReduceAll(store, acts), acts[Len(acts)], local)
    /\ UNCHANGED <<inflight, now, focus, lanes, session, fetched>>

\* A request in flight: the thunk and its argument, what the handler awaiting
\* it does next (`then`), and what the slice cached when it was dispatched.
Request(type, arg, then) ==
    [type |-> type, arg |-> arg, then |-> then, before |-> Cached(store)]

Pending(type, arg) == [type |-> type \o "/pending", meta |-> [arg |-> arg]]

\* A thunk is dispatched: its pending action is reduced, its request is in flight.
Thunk(type, arg, then) ==
    /\ Settle(rootReducer(store, Pending(type, arg), now), Pending(type, arg), view.local)
    /\ inflight' = Append(inflight, Request(type, arg, then))
    /\ UNCHANGED <<now, focus, lanes, session, fetched>>

\* A fetch effect runs: the thunk is dispatched if `should`.
Effect(v, should, type, arg) ==
    /\ focus = v /\ view.mounted /\ view.effect
    /\ IF should
       THEN /\ store' = rootReducer(store, Pending(type, arg), now)
            /\ action' = Pending(type, arg)
            /\ inflight' = Append(inflight, Request(type, arg, [do |-> "nothing"]))
       ELSE UNCHANGED <<store, action, inflight>>
    /\ view' = [view EXCEPT !.effect = FALSE]
    /\ UNCHANGED <<now, focus, lanes, session, fetched>>

\* What the server may answer to the request `req`, as the thunk's payload
\* creator returns it.  `lists` is what the server may list.
Payloads(req, lists) ==
    CASE req.type = "tracks/fetchTracks" ->
            {fetchTracks(req.arg, resp) :
                resp \in ListResponses(lists, req.arg.page, req.arg.pageSize)}
      [] req.type = "playlists/fetchPlaylists" ->
            {fetchPlaylists(req.arg, resp) :
                resp \in ListResponses(lists, req.arg.page, req.arg.pageSize)}
      [] req.type = "pages/fetchPages" ->
            {fetchPages(req.arg, resp) :
                resp \in ListResponses(lists, req.arg.page, req.arg.pageSize)}
      [] req.type = "contacts/fetchContacts" ->
            {fetchContacts(req.arg, resp) :
                resp \in ListResponses(lists, req.arg.page, req.arg.pageSize)}
      [] req.type = "dashboard/fetchDashboardData" ->
            {fetchDashboardData(resp) : resp \in ListResponses(lists, 1, 5)}
      [] req.type \in {"tracks/createTrack", "playlists/createPlaylist"} ->
            IF Listed(Own(store).items, CreatedItem._id) THEN {} ELSE {CreatedItem}
      [] req.type = "pages/createPage" -> {CreatedItem}
      [] req.type \in {"tracks/updateTrack", "playlists/updatePlaylist",
                       "playlists/addTracksToPlaylist",
                       "playlists/removeTrackFromPlaylist", "pages/updatePage"} ->
            {Item(req.arg.id, 1)}
      [] req.type \in {"tracks/deleteTrack", "playlists/deletePlaylist", "pages/deletePage",
                       "contacts/deleteContact", "images/deleteImage"} ->
            {req.arg}
      [] req.type = "images/fetchImages" ->
            {getUploadedImages(TRUE, resp) : resp \in MediaPages(1, MaxFetch)}
      [] req.type = "images/loadMoreImages" ->
            {getUploadedImages(TRUE, resp) : resp \in MediaPages(MaxFetch + 1, MaxId)}
      [] req.type = "audios/fetchAudios" ->
            {getUploadedAudios(TRUE, resp) : resp \in MediaPages(1, MaxFetch)}
      [] req.type = "audios/loadMoreAudios" ->
            {getUploadedAudios(TRUE, resp) : resp \in MediaPages(MaxFetch + 1, MaxId)}
      [] req.type = "audios/fetchAudioFolders" ->
            {[folders |-> f] : f \in {<<>>, <<"music">>}}

\* The thunks that fetch a list.
ListFetches ==
    {"tracks/fetchTracks", "playlists/fetchPlaylists", "pages/fetchPages",
     "contacts/fetchContacts", "images/fetchImages", "audios/fetchAudios",
     "audios/fetchAudioFolders", "dashboard/fetchDashboardData"}

\* The thunks over getUploadedImages and getUploadedAudios, which catch every
\* failure of their request.
Swallowing ==
    {"images/fetchImages", "images/loadMoreImages", "audios/fetchAudios",
     "audios/loadMoreAudios"}

\* The request `req` completed with the action `act`: the action is reduced and
\* the handler that awaited the thunk goes on.  A form navigates to its list
\* (TrackForm and PlaylistForm unwrap the result and navigate after a success,
\* PageForm navigates in any case); confirmDelete of PageList and ContactList
\* steps back a page if the row it deleted was the last one of a later page.
Continue(req, act) ==
    LET st == rootReducer(store, act, now)
        fulfilled == act.type = req.type \o "/fulfilled"
    IN  CASE /\ ~view.mounted
             /\ \/ req.then.do = "navigate"
                \/ req.then.do = "navigate if fulfilled" /\ fulfilled ->
                /\ store' = st
                /\ action' = act
                /\ view' = [initialView EXCEPT !.mounted = TRUE, !.effect = TRUE]
          [] req.then.do = "setPagination" ->
                Settle(rootReducer(st, req.then.action, now), act, view.local)
          [] OTHER -> Settle(st, act, view.local)

\* A request is answered: its thunk is fulfilled.  (`http` is not a field of
\* the Redux action: it records whether the request behind it succeeded.)
Fulfilled(lists) ==
    \E k \in 1..Len(inflight) : \E payload \in Payloads(inflight[k], lists) :
        /\ Idle
        /\ Continue(inflight[k], [type |-> inflight[k].type \o "/fulfilled",
                                  payload |-> payload,
                                  meta |-> [arg |-> inflight[k].arg],
                                  http |-> "ok"])
        /\ inflight' = Remove(inflight, k)
        /\ fetched' = IF inflight[k].type \in ListFetches THEN <<inflight[k].arg>> ELSE fetched
        /\ UNCHANGED <<now, focus, lanes, session>>

\* A request to the media host fails: api.ts answers an empty page in its
\* place, and the thunk is fulfilled with it.
Swallowed ==
    \E k \in 1..Len(inflight) :
        /\ Idle
        /\ inflight[k].type \in Swallowing
        /\ Continue(inflight[k],
                    [type |-> inflight[k].type \o "/fulfilled",
                     payload |-> IF inflight[k].type \in {"images/fetchImages",
                                                          "images/loadMoreImages"}
                                 THEN getUploadedImages(FALSE, <<>>)
                                 ELSE getUploadedAudios(FALSE, <<>>),
                     meta |-> [arg |-> inflight[k].arg],
                     http |-> "failed"])
        /\ inflight' = Remove(inflight, k)
        /\ UNCHANGED <<now, focus, lanes, session, fetched>>

\* Any other request fails: its thunk is rejected.
Rejected ==
    \E k \in 1..Len(inflight), message \in ErrorMessages :
        /\ Idle
        /\ inflight[k].type \notin Swallowing
        /\ Continue(inflight[k], [type |-> inflight[k].type \o "/rejected",
                                  error |-> [message |-> message],
                                  meta |-> [arg |-> inflight[k].arg],
                                  http |-> "failed"])
        /\ inflight' = Remove(inflight, k)
        /\ UNCHANGED <<now, focus, lanes, session, fetched>>

\* Time passes while nothing else happens; TickSteps are the minutes between
\* two looks at the clock.
TickSteps == {2, 3}

Tick ==
    /\ Idle /\ inflight = <<>>
    /\ \E d \in TickSteps : now + d <= MaxTime /\ now' = now + d
    /\ UNCHANGED <<store, inflight, action, focus, lanes, session, fetched, view>>

\* The user opens the list, which ProtectedRoute renders for a session that
\* is authenticated.
Mount ==
    /\ Idle /\ Free /\ ~view.mounted
    /\ ProtectedRoute(session) = "children"
    /\ view' = [initialView EXCEPT !.mounted = TRUE, !.effect = TRUE]
    /\ UNCHANGED <<store, inflight, action, now, focus, lanes, session, fetched>>

\* The user leaves the list; ContactList's cleanup clears a shown error.
Unmount ==
    /\ Idle /\ Free /\ view.mounted
    /\ view' = initialView
    /\ IF focus = "contacts" /\ store.contacts.error # Null
       THEN /\ store' = rootReducer(store, [type |-> "contacts/clearError"], now)
            /\ action' = [type |-> "contacts/clearError"]
       ELSE UNCHANGED <<store, action>>
    /\ UNCHANGED <<inflight, now, focus, lanes, session, fetched>>

\* A cache-clearing reducer of the slice in focus is dispatched (clearPages,
\* forceRefresh, clearContacts, clearImages, clearAudios, clearDashboardData:
\* exported by the slices, dispatched by no view).
ClearCache ==
    /\ Idle /\ Free
    /\ \E type \in (CASE focus = "pages" -> {"pages/clearPages", "pages/forceRefresh"}
                       [] focus = "pagesCached" -> {"pages/clearPages"}
                       [] focus = "contacts" -> {"contacts/clearContacts"}
                       [] focus = "images" -> {"images/clearImages"}
                       [] focus = "audios" -> {"audios/clearAudios"}
                       [] focus = "dashboard" -> {"dashboard/clearDashboardData"}
                       [] OTHER -> {}) :
          Dispatch(<<[type |-> type]>>, view.local)

----------------------------------------------------------------------------
\* TrackList and TrackForm

TracksCacheDuration == 2     \* CACHE_DURATION of TrackList, in minutes

TrackListParams(state) ==
    [page |-> state.pagination.page, pageSize |-> state.pagination.pageSize,
     search |-> state.searchTerm, category |-> state.categoryFilter,
     author |-> state.authorFilter]

\* paramsChanged of TrackList if the search term were not compared.
TrackListParamsChanged_NoSearch(state) ==
    LET currentParams == TrackListParams(state)
        lastFetchParams == state.lastFetchParams
    IN  \/ lastFetchParams = <<>>
        \/ currentParams.page # lastFetchParams[1].page
        \/ currentParams.pageSize # lastFetchParams[1].pageSize
        \/ currentParams.category # lastFetchParams[1].category
        \/ currentParams.author # lastFetchParams[1].author

TrackListParamsChanged(state) ==
    LET currentParams == TrackListParams(state)
        lastFetchParams == state.lastFetchParams
    IN  \/ lastFetchParams = <<>>
        \/ currentParams.page # lastFetchParams[1].page
        \/ currentParams.pageSize # lastFetchParams[1].pageSize
        \/ currentParams.search # lastFetchParams[1].search
        \/ currentParams.category # lastFetchParams[1].category
        \/ currentParams.author # lastFetchParams[1].author

\* shouldFetch of TrackList if the cache never expired.
TrackListShouldFetch_NoExpiry(state, t) ==
    \/ state.lastFetched = NoTime
    \/ TrackListParamsChanged(state)

TrackListShouldFetch(state, t) ==
    \/ state.lastFetched = NoTime
    \/ t - state.lastFetched > TracksCacheDuration
    \/ TrackListParamsChanged(state)

\* The fetch effect of TrackList.
TrackListEffect ==
    Effect("tracks", TrackListShouldFetch(store.tracks, now),
           "tracks/fetchTracks", TrackListParams(store.tracks))

\* The filter handlers of TrackList if they left the page where it was.
TrackListHandleFilter_KeepingPage ==
    /\ Ready("tracks")
    /\ \E type \in {"tracks/setSearchTerm", "tracks/setCategoryFilter",
                    "tracks/setAuthorFilter"}, value \in Terms :
          Dispatch(<<[type |-> type, payload |-> value]>>, view.local)

\* handleSearch, handleCategoryFilterChange and handleAuthorFilterChange: the
\* value is committed and the page reset.
TrackListHandleFilter ==
    /\ Ready("tracks")
    /\ \E type \in {"tracks/setSearchTerm", "tracks/setCategoryFilter",
                    "tracks/setAuthorFilter"}, value \in Terms :
          Dispatch(<<[type |-> type, payload |-> value],
                     [type |-> "tracks/setPagination",
                      payload |-> [page |-> 1,
                                   pageSize |-> store.tracks.pagination.pageSize]]>>,
                   view.local)

\* handlePaginationChange, with the page and page size the grid may report.
TrackListHandlePaginationChange(Sizes) ==
    /\ Ready("tracks")
    /\ \E p \in [page : PageNumbers, pageSize : Sizes] :
          Dispatch(<<[type |-> "tracks/setPagination", payload |-> p]>>, view.local)

\* handleDeleteConfirm: a listed track is deleted.
TrackListHandleDeleteConfirm ==
    /\ Ready("tracks")
    /\ \E k \in 1..Len(store.tracks.items) :
          Thunk("tracks/deleteTrack", store.tracks.items[k]._id, [do |-> "nothing"])

\* TrackForm.onSubmit, on the create route or on the edit route of a track.
TrackFormOnSubmit ==
    /\ Closed("tracks")
    /\ \/ Thunk("tracks/createTrack", "trackData", [do |-> "navigate if fulfilled"])
       \/ \E id \in Ids :
            Thunk("tracks/updateTrack", [id |-> id], [do |-> "navigate if fulfilled"])

\* PlaylistForm on mount: the tracks to choose from are fetched into the slice.
PlaylistFormMount ==
    /\ Closed("tracks")
    /\ Thunk("tracks/fetchTracks",
             [page |-> 1, pageSize |-> 100, search |-> Undef, category |-> Undef,
              author |-> Undef],
             [do |-> "nothing"])

----------------------------------------------------------------------------
\* PlaylistList and PlaylistForm

PlaylistsCacheDuration == 2  \* CACHE_DURATION of PlaylistList, in minutes

\* isPublic: the filter string as a boolean, undefined if no filter is set.
PlaylistListParams(state) ==
    [page |-> state.pagination.page, pageSize |-> state.pagination.pageSize,
     search |-> state.searchTerm, createdBy |-> state.createdByFilter,
     isPublic |-> IF Falsy(state.isPublicFilter) THEN Undef
                  ELSE IF state.isPublicFilter = "true" THEN "TRUE" ELSE "FALSE",
     tag |-> state.tagFilter]

PlaylistListParamsChanged(state) ==
    LET currentParams == PlaylistListParams(state)
        lastFetchParams == state.lastFetchParams
    IN  \/ lastFetchParams = <<>>
        \/ currentParams.page # lastFetchParams[1].page
        \/ currentParams.pageSize # lastFetchParams[1].pageSize
        \/ currentParams.search # lastFetchParams[1].search
        \/ currentParams.createdBy # lastFetchParams[1].createdBy
        \/ currentParams.isPublic # lastFetchParams[1].isPublic
        \/ currentParams.tag # lastFetchParams[1].tag

PlaylistListShouldFetch(state, t) ==
    \/ state.lastFetched = NoTime
    \/ t - state.lastFetched > PlaylistsCacheDuration
    \/ PlaylistListParamsChanged(state)

\* The fetch effect of PlaylistList.
PlaylistListEffect ==
    Effect("playlists", PlaylistListShouldFetch(store.playlists, now),
           "playlists/fetchPlaylists", PlaylistListParams(store.playlists))

\* handleSearch, handleCreatedByFilterChange and handleIsPublicFilterChange.
PlaylistListHandleFilter ==
    /\ Ready("playlists")
    /\ \E act \in [type : {"playlists/setSearchTerm", "playlists/setCreatedByFilter"},
                   payload : Terms]
             \cup [type : {"playlists/setIsPublicFilter"}, payload : {"", "true", "false"}] :
          Dispatch(<<act,
                     [type |-> "playlists/setPagination",
                      payload |-> [page |-> 1,
                                   pageSize |-> store.playlists.pagination.pageSize]]>>,
                   view.local)

PlaylistListHandlePaginationChange(Sizes) ==
    /\ Ready("playlists")
    /\ \E p \in [page : PageNumbers, pageSize : Sizes] :
          Dispatch(<<[type |-> "playlists/setPagination", payload |-> p]>>, view.local)

PlaylistListHandleDeleteConfirm ==
    /\ Ready("playlists")
    /\ \E k \in 1..Len(store.playlists.items) :
          Thunk("playlists/deletePlaylist", store.playlists.items[k]._id,
                [do |-> "nothing"])

\* PlaylistForm.onSubmit, on the create route or on the edit route.
PlaylistFormOnSubmit ==
    /\ Closed("playlists")
    /\ \/ Thunk("playlists/createPlaylist", "playlistData", [do |-> "navigate if fulfilled"])
       \/ \E id \in Ids :
            Thunk("playlists/updatePlaylist", [id |-> id], [do |-> "navigate if fulfilled"])

\* addTracksToPlaylist and removeTrackFromPlaylist are dispatched for a
\* playlist (the slice exports the thunks; no view of this repository
\* dispatches them).
PlaylistTracksEdit ==
    /\ Closed("playlists")
    /\ \E type \in {"playlists/addTracksToPlaylist", "playlists/removeTrackFromPlaylist"},
          id \in Ids :
          Thunk(type, [id |-> id], [do |-> "nothing"])

----------------------------------------------------------------------------
\* PageList (server-side search and group filter) and PageForm

PageListParams ==
    [page |-> store.pages.pagination.page, pageSize |-> store.pages.pagination.pageSize,
     search |-> view.local.searchTerm, group |-> view.local.selectedGroupFilter]

\* The fetch effect of PageList: it fetches whenever it runs.
PageListEffect == Effect("pages", TRUE, "pages/fetchPages", PageListParams)

\* handleSearchChange, when its debounce timer fires.
PageListHandleSearchChange ==
    /\ Ready("pages")
    /\ \E value \in Terms :
          Dispatch(<<[type |-> "pages/setPagination",
                      payload |-> [page |-> 1,
                                   pageSize |-> store.pages.pagination.pageSize]]>>,
                   [view.local EXCEPT !.searchTerm = value])

PageListHandleGroupFilterChange ==
    /\ Ready("pages")
    /\ \E value \in {"", "blogs"} :
          Dispatch(<<[type |-> "pages/setGroupFilter", payload |-> value],
                     [type |-> "pages/setPagination",
                      payload |-> [page |-> 1,
                                   pageSize |-> store.pages.pagination.pageSize]]>>,
                   [view.local EXCEPT !.selectedGroupFilter = value])

\* handlePaginationChange: dispatches only if the page or its size changed.
PageListHandlePaginationChange(Sizes) ==
    /\ Ready("pages")
    /\ \E p \in [page : PageNumbers, pageSize : Sizes] :
          /\ p.page # store.pages.pagination.page
             \/ p.pageSize # store.pages.pagination.pageSize
          /\ Dispatch(<<[type |-> "pages/setPagination", payload |-> p]>>, view.local)

\* What confirmDelete does after its await, decided on the list and the page
\* it saw when the dialog was confirmed: back a page if the row was the last
\* one of a later page.
AfterDelete(state, type) ==
    IF Len(state.items) = 1 /\ state.pagination.page > 1
    THEN [do |-> "setPagination",
          action |-> [type |-> type,
                      payload |-> [page |-> state.pagination.page - 1,
                                   pageSize |-> state.pagination.pageSize]]]
    ELSE [do |-> "nothing"]

PageListConfirmDelete ==
    /\ Ready("pages")
    /\ \E k \in 1..Len(store.pages.items) :
          Thunk("pages/deletePage", store.pages.items[k]._id,
                AfterDelete(store.pages, "pages/setPagination"))

\* PageForm.onSubmit, on the create route or on the edit route of a page.
PageFormOnSubmit ==
    /\ focus \in {"pages", "pagesCached"} /\ ~view.mounted /\ Free
    /\ \/ Thunk("pages/createPage", "pageData", [do |-> "navigate"])
       \/ \E id \in Ids : Thunk("pages/updatePage", [id |-> id], [do |-> "navigate"])

----------------------------------------------------------------------------
\* PageList with the cached list (filters applied in the browser)

PagesCacheDuration == 2      \* CACHE_DURATION of PageList, in minutes

PageListCachedShouldFetch(state, t) ==
    \/ state.lastFetched = NoTime
    \/ t - state.lastFetched > PagesCacheDuration

\* The fetch effect of the cached PageList.
PageListCachedEffect ==
    Effect("pagesCached",
           \/ PageListCachedShouldFetch(store.pages, now)
           \/ store.pages.pagination.page # 1
           \/ store.pages.pagination.pageSize # 10,
           "pages/fetchPages",
           [page |-> store.pages.pagination.page,
            pageSize |-> store.pages.pagination.pageSize,
            search |-> Undef, group |-> Undef])

PageListCachedHandlePaginationChange(Sizes) ==
    /\ Ready("pagesCached")
    /\ \E p \in [page : PageNumbers, pageSize : Sizes] :
          Dispatch(<<[type |-> "pages/setPagination", payload |-> p]>>, view.local)

PageListCachedConfirmDelete ==
    /\ Ready("pagesCached")
    /\ \E k \in 1..Len(store.pages.items) :
          Thunk("pages/deletePage", store.pages.items[k]._id, [do |-> "nothing"])

----------------------------------------------------------------------------
\* ContactList

ContactListParams ==
    [page |-> store.contacts.pagination.page,
     pageSize |-> store.contacts.pagination.pageSize,
     search |-> view.local.searchTerm]

\* The fetch effect of ContactList: it fetches whenever it runs.
ContactListEffect == Effect("contacts", TRUE, "contacts/fetchContacts", ContactListParams)

\* handleSearchChange, when its debounce timer fires.
ContactListHandleSearchChange ==
    /\ Ready("contacts")
    /\ \E value \in Terms :
          Dispatch(<<[type |-> "contacts/setPagination",
                      payload |-> [page |-> 1,
                                   pageSize |-> store.contacts.pagination.pageSize]]>>,
                   [view.local EXCEPT !.searchTerm = value])

ContactListHandlePaginationChange(Sizes) ==
    /\ Ready("contacts")
    /\ \E p \in [page : PageNumbers, pageSize : Sizes] :
          /\ p.page # store.contacts.pagination.page
             \/ p.pageSize # store.contacts.pagination.pageSize
          /\ Dispatch(<<[type |-> "contacts/setPagination", payload |-> p]>>, view.local)

ContactListHandleRefresh ==
    /\ Ready("contacts")
    /\ Thunk("contacts/fetchContacts", ContactListParams, [do |-> "nothing"])

ContactListConfirmDelete ==
    /\ Ready("contacts")
    /\ \E k \in 1..Len(store.contacts.items) :
          Thunk("contacts/deleteContact", store.contacts.items[k]._id,
                AfterDelete(store.contacts, "contacts/setPagination"))

----------------------------------------------------------------------------
\* Images, Audios and Dashboard

MediaCacheDuration == 5      \* CACHE_DURATION of Images, Audios and Dashboard, in minutes

ImagesShouldFetch(state, t) ==
    \/ state.lastFetched = NoTime
    \/ t - state.lastFetched > MediaCacheDuration

ImagesEffect ==
    Effect("images", ImagesShouldFetch(store.images, now), "images/fetchImages", Undef)

ImagesHandleDeleteImage ==
    /\ Ready("images")
    /\ \E k \in 1..Len(store.images.items) :
          Thunk("images/deleteImage", store.images.items[k].public_id, [do |-> "nothing"])

\* handleFileSelect, after a successful upload: the list is fetched again.
ImagesHandleFileSelect ==
    Ready("images") /\ Thunk("images/fetchImages", Undef, [do |-> "nothing"])

\* The Load More button.
ImagesLoadMore ==
    /\ Ready("images")
    /\ ~Falsy(store.images.nextCursor)
    /\ Len(store.images.items) < MaxItems
    /\ Thunk("images/loadMoreImages", store.images.nextCursor, [do |-> "nothing"])

AudiosShouldFetchFolders(state, t) ==
    \/ state.lastFetchedFolders = NoTime
    \/ t - state.lastFetchedFolders > MediaCacheDuration

AudiosShouldFetch(state, t) ==
    \/ state.lastFetched = NoTime
    \/ t - state.lastFetched > MediaCacheDuration

\* The fetch effect of Audios: the folders in folder mode, the flat list otherwise.
AudiosEffect ==
    IF store.audios.viewMode = "folders"
    THEN Effect("audios", AudiosShouldFetchFolders(store.audios, now),
                "audios/fetchAudioFolders", Undef)
    ELSE Effect("audios", AudiosShouldFetch(store.audios, now), "audios/fetchAudios", Undef)

AudiosHandleFileSelect ==
    Ready("audios") /\ Thunk("audios/fetchAudios", Undef, [do |-> "nothing"])

AudiosLoadMore ==
    /\ Ready("audios")
    /\ ~Falsy(store.audios.nextCursor)
    /\ Len(store.audios.items) < MaxItems
    /\ Thunk("audios/loadMoreAudios", store.audios.nextCursor, [do |-> "nothing"])

AudiosHandleViewModeChange ==
    /\ Ready("audios")
    /\ \E newViewMode \in {"flat", "folders"} :
          Dispatch(<<[type |-> "audios/setViewMode", payload |-> newViewMode]>>, view.local)

DashboardShouldFetch(state, t) ==
    \/ state.lastFetched = NoTime
    \/ t - state.lastFetched > MediaCacheDuration

DashboardEffect ==
    Effect("dashboard", DashboardShouldFetch(store.dashboard, now),
           "dashboard/fetchDashboardData", Undef)

----------------------------------------------------------------------------
\* AuthProvider, the login page and the API client's interceptor

\* A step of the session: the store and the views are left alone.
Session(s, event) ==
    /\ session' = [s EXCEPT !.event = event]
    /\ UNCHANGED <<store, inflight, action, now, focus, lanes, fetched, view>>

\* The bootstrap effect of AuthProvider: an expired token is removed, another
\* is sent to be verified, no token ends the bootstrap.
AuthProviderEffect ==
    /\ ~session.booted
    /\ LET s == [session EXCEPT !.booted = TRUE]
       IN  Session(IF s.storage # <<>>
                   THEN IF isTokenExpired(s.storage[1], now)
                        THEN [s EXCEPT !.storage = <<>>, !.loading = FALSE]
                        ELSE [s EXCEPT !.verify = VerifyRequest(s.storage[1], 0),
                                       !.sent = s.sent + 1]
                   ELSE [s EXCEPT !.loading = FALSE],
                   Event("bootstrap", "none", 0))

\* The verify request in flight is answered, or fails.
VerifyResponds ==
    /\ session.verify.phase = "request"
    /\ \E response \in VerifyResponses :
          Session(verifyToken(session, session.verify.token, session.verify.retryCount,
                              response),
                  Event("verify", response, session.verify.retryCount))

\* The timer of a retry fires: verifyToken sends the next request.
VerifyRetry ==
    /\ session.verify.phase = "timer"
    /\ Session([session EXCEPT
                   !.verify = VerifyRequest(session.verify.token, session.verify.retryCount),
                   !.sent = session.sent + 1],
               Event("retry", "none", session.verify.retryCount))

\* The login page, which ProtectedRoute navigates to: the form is submitted.
Login ==
    /\ ProtectedRoute(session) = "login"
    /\ \E response \in {"token and user", "no token", "401", "network error"} :
          Session(login(session, response), Event("login", response, 0))

\* The logout button of the layout: ProtectedRoute navigates to the login
\* page, and the list is unmounted as in Unmount.
Logout ==
    /\ ProtectedRoute(session) = "children"
    /\ Idle
    /\ session' = [logout(session) EXCEPT !.event = Event("logout", "none", 0)]
    /\ view' = initialView
    /\ IF view.mounted /\ focus = "contacts" /\ store.contacts.error # Null
       THEN /\ store' = rootReducer(store, [type |-> "contacts/clearError"], now)
            /\ action' = [type |-> "contacts/clearError"]
       ELSE UNCHANGED <<store, action>>
    /\ UNCHANGED <<inflight, now, focus, lanes, fetched>>

\* A request of the API client is answered 401.  The interceptor removes the
\* token and reloads the page: the store, the views and AuthProvider start
\* over, and what the page had in flight is gone.  (Were the interceptor to
\* pass the error on, the thunk would be rejected with it.)
Unauthorized ==
    \E k \in 1..Len(inflight) :
        /\ Idle
        /\ inflight[k].type \in ListFetches
        /\ IF responseInterceptor("401", Url(inflight[k].type))
           THEN /\ session' = [initialSession(<<>>) EXCEPT !.event = Event("api", "401", 0)]
                /\ store' = initialStore
                /\ action' = [type |-> "@@INIT"]
                /\ inflight' = <<>>
                /\ fetched' = <<>>
                /\ view' = initialView
           ELSE /\ session' = [session EXCEPT !.event = Event("api", "401", 0)]
                /\ Continue(inflight[k],
                            [type |-> inflight[k].type \o "/rejected",
                             error |-> [message |-> "Request failed with status code 401"],
                             meta |-> [arg |-> inflight[k].arg],
                             http |-> "failed"])
                /\ inflight' = Remove(inflight, k)
                /\ fetched' = fetched
        /\ UNCHANGED <<now, focus, lanes>>

----------------------------------------------------------------------------
\* The specifications.

\* The list contents: the user pages through the list and deletes, the forms
\* create and update, and every request succeeds or fails.  Users and forms do
\* one thing at a time: the next comes when the request of the last completed.
Next ==
    \/ Mount \/ Unmount \/ ClearCache
    \/ TrackListEffect \/ PlaylistListEffect \/ PageListEffect \/ PageListCachedEffect
    \/ ContactListEffect \/ ImagesEffect \/ AudiosEffect \/ DashboardEffect
    \/ TrackListHandlePaginationChange({10})
    \/ PlaylistListHandlePaginationChange({10})
    \/ PageListHandlePaginationChange({10})
    \/ PageListCachedHandlePaginationChange({10})
    \/ ContactListHandlePaginationChange({10})
    \/ TrackListHandleDeleteConfirm \/ PlaylistListHandleDeleteConfirm
    \/ PageListConfirmDelete \/ PageListCachedConfirmDelete
    \/ ContactListConfirmDelete \/ ImagesHandleDeleteImage
    \/ TrackFormOnSubmit \/ PlaylistFormOnSubmit \/ PageFormOnSubmit
    \/ PlaylistFormMount \/ PlaylistTracksEdit \/ ContactListHandleRefresh
    \/ ImagesHandleFileSelect \/ ImagesLoadMore
    \/ AudiosHandleFileSelect \/ AudiosLoadMore \/ AudiosHandleViewModeChange
    \/ Fulfilled(ServerLists) \/ Swallowed \/ Rejected

Spec == Init /\ [][Next]_vars

\* The staleness checks: time passes, the user searches, filters and pages
\* through a list whose content the server does not change; only the media
\* host fails.
ViewNext ==
    \/ Tick \/ Mount \/ Unmount
    \/ TrackListEffect \/ PlaylistListEffect \/ PageListEffect \/ PageListCachedEffect
    \/ ContactListEffect \/ ImagesEffect \/ AudiosEffect \/ DashboardEffect
    \/ TrackListHandleFilter \/ PlaylistListHandleFilter
    \/ PageListHandleSearchChange \/ PageListHandleGroupFilterChange
    \/ ContactListHandleSearchChange
    \/ TrackListHandlePaginationChange(PageSizes)
    \/ PlaylistListHandlePaginationChange(PageSizes)
    \/ PageListHandlePaginationChange(PageSizes)
    \/ PageListCachedHandlePaginationChange(PageSizes)
    \/ ContactListHandlePaginationChange(PageSizes)
    \/ AudiosHandleViewModeChange
    \/ Fulfilled({Catalogue}) \/ Swallowed

ViewSpec == Init /\ [][ViewNext]_vars

\* As ViewSpec, where React runs an effect that is due and a request in flight
\* is answered.
ViewFairSpec ==
    /\ ViewSpec
    /\ WF_vars(\/ TrackListEffect \/ PlaylistListEffect \/ PageListEffect
                \/ PageListCachedEffect \/ ContactListEffect \/ ImagesEffect
                \/ AudiosEffect \/ DashboardEffect)
    /\ WF_vars(Fulfilled({Catalogue}) \/ Swallowed)

\* The races: the user pages on, refreshes or uploads while a fetch is in
\* flight, and the answers arrive in any order.
RaceNext ==
    \/ Mount
    \/ TrackListEffect \/ PlaylistListEffect \/ PageListEffect \/ PageListCachedEffect
    \/ ContactListEffect \/ ImagesEffect \/ AudiosEffect \/ DashboardEffect
    \/ TrackListHandlePaginationChange({10})
    \/ PlaylistListHandlePaginationChange({10})
    \/ PageListHandlePaginationChange({10})
    \/ PageListCachedHandlePaginationChange({10})
    \/ ContactListHandlePaginationChange({10})
    \/ ContactListHandleRefresh \/ ImagesHandleFileSelect
    \/ AudiosHandleFileSelect \/ AudiosHandleViewModeChange \/ ClearCache
    \/ Fulfilled(ServerLists) \/ Swallowed \/ Rejected

RaceSpec == RaceInit /\ [][RaceNext]_vars

\* The races of a search: the user types, filters and pages on while a fetch
\* is in flight, over a server that lists its catalogue.
FilterRaceNext ==
    \/ Mount
    \/ TrackListEffect \/ PlaylistListEffect \/ PageListEffect \/ PageListCachedEffect
    \/ ContactListEffect \/ ImagesEffect \/ AudiosEffect \/ DashboardEffect
    \/ TrackListHandleFilter \/ PlaylistListHandleFilter
    \/ PageListHandleSearchChange \/ PageListHandleGroupFilterChange
    \/ ContactListHandleSearchChange
    \/ TrackListHandlePaginationChange({10})
    \/ PlaylistListHandlePaginationChange({10})
    \/ PageListHandlePaginationChange({10})
    \/ PageListCachedHandlePaginationChange({10})
    \/ ContactListHandlePaginationChange({10})
    \/ AudiosHandleViewModeChange
    \/ Fulfilled({Catalogue}) \/ Swallowed

FilterRaceSpec == RaceInit /\ [][FilterRaceNext]_vars

\* The session: the page is loaded over a localStorage with or without a
\* token, the token is verified, the user logs in and out and opens the lists,
\* whose requests are answered, fail at the media host, or are answered 401.
AuthInit ==
    /\ focus \in Views
    /\ store = initialStore
    /\ inflight = <<>>
    /\ action = [type |-> "@@INIT"]
    /\ now = 1
    /\ lanes = 1
    /\ fetched = <<>>
    /\ view = initialView
    /\ session \in {initialSession(storage) :
                       storage \in {<<>>} \cup {<<token>> : token \in Tokens}}

AuthNext ==
    \/ AuthProviderEffect \/ VerifyResponds \/ VerifyRetry
    \/ Login \/ Logout \/ Unauthorized
    \/ Mount \/ Unmount
    \/ TrackListEffect \/ PlaylistListEffect \/ PageListEffect \/ PageListCachedEffect
    \/ ContactListEffect \/ ImagesEffect \/ AudiosEffect \/ DashboardEffect
    \/ Fulfilled({Catalogue}) \/ Swallowed

AuthSpec == AuthInit /\ [][AuthNext]_vars

\* As AuthSpec, where a verify request in flight is answered or times out
\* (axios gives it 5 s) and a timer that is set fires.
AuthFairSpec == AuthSpec /\ WF_vars(VerifyResponds) /\ WF_vars(VerifyRetry)

----------------------------------------------------------------------------
\* The vocabulary of the properties.

\* This step completes a request with an action of one of `types`.
Completes(types) == Len(inflight') < Len(inflight) /\ action'.type \in types

\* This step runs the fetch effect of the mounted view.
EffectRuns == view.mounted /\ view.effect /\ ~view'.effect

\* This step dispatches a thunk that fetches a list.
Fetches ==
    /\ Len(inflight') = Len(inflight) + 1
    /\ inflight'[Len(inflight')].type \in ListFetches

\* The timestamp the view's staleness check reads, and the duration it allows
\* (ContactList and the searching PageList have no duration of their own: the
\* two minutes of the other searchable lists stand for it).
Stamp(st) ==
    IF focus = "audios" /\ st.audios.viewMode = "folders"
    THEN st.audios.lastFetchedFolders
    ELSE Own(st).lastFetched

Duration ==
    CASE focus = "tracks" -> TracksCacheDuration
      [] focus = "playlists" -> PlaylistsCacheDuration
      [] focus \in {"pages", "pagesCached", "contacts"} -> PagesCacheDuration
      [] OTHER -> MediaCacheDuration

\* The parameters the view would fetch with now.
CurrentParams ==
    CASE focus = "tracks" -> TrackListParams(store.tracks)
      [] focus = "playlists" -> PlaylistListParams(store.playlists)
      [] focus = "pages" -> PageListParams
      [] focus = "pagesCached" ->
            [page |-> store.pages.pagination.page,
             pageSize |-> store.pages.pagination.pageSize,
             search |-> Undef, group |-> Undef]
      [] focus = "contacts" -> ContactListParams
      [] OTHER -> Undef

\* The fetches of an item list, and the fallback message of their rejection.
ItemFetches == ListFetches \ {"audios/fetchAudioFolders"}

Fallback(type) ==
    CASE type = "tracks/fetchTracks" -> "Failed to fetch tracks"
      [] type = "playlists/fetchPlaylists" -> "Failed to fetch playlists"
      [] type = "pages/fetchPages" -> "Failed to fetch pages"
      [] type = "contacts/fetchContacts" -> "Failed to fetch contacts"
      [] type = "images/fetchImages" -> "Failed to fetch images"
      [] type = "audios/fetchAudios" -> "Failed to fetch audios"
      [] type = "dashboard/fetchDashboardData" -> "Failed to fetch dashboard data"

\* The request at position k of `inflight` is a list fetch, and this step
\* rejects it.
RejectsFetch(k) ==
    /\ inflight[k].type \in ItemFetches
    /\ inflight' = Remove(inflight, k)
    /\ action'.type = inflight[k].type \o "/rejected"
    /\ action'.meta.arg = inflight[k].arg

\* The slice shows the failure: loading = false, error = the message or the
\* fallback.
ShowsFailure(k) ==
    /\ ~Own(store').loading
    /\ Own(store').error =
          IF action'.error.message \in {Undef, Null, ""}
          THEN Fallback(inflight[k].type)
          ELSE action'.error.message

----------------------------------------------------------------------------
\* C1

\* C1, as stated: when a list fetch is rejected, the slice ends with
\* loading = false and error = the failure's message or the slice's fallback,
\* and items and pagination are what they were when the fetch was dispatched.
C1_UnchangedSinceDispatch ==
    [][\A k \in 1..Len(inflight) :
          RejectsFetch(k) =>
             ShowsFailure(k) /\ Cached(store') = inflight[k].before]_vars

\* C1, as the code has it: when a list fetch is rejected, the slice ends with
\* loading = false and error = the failure's message or the slice's fallback,
\* and the rejection leaves items and pagination as they were just before it
\* (another request that completed since the dispatch may have changed them).
C1_RejectionKeepsCache ==
    [][\A k \in 1..Len(inflight) :
          RejectsFetch(k) =>
             ShowsFailure(k) /\ Cached(store') = Cached(store)]_vars

\* A list fetch was just rejected over a cache that holds items.
C1_Witness ==
    /\ action.type \in {t \o "/rejected" : t \in ItemFetches}
    /\ Own(store).error # Null
    /\ ~Own(store).loading
    /\ Cached(store).items # <<>>

----------------------------------------------------------------------------
\* C2

\* C2, as stated: when the listing request of images or audios fails, the
\* slice's error is non-null and the cached items are kept.
C2_MediaFailureSurfaced ==
    [][(/\ Completes({"images/fetchImages/fulfilled", "images/fetchImages/rejected",
                      "audios/fetchAudios/fulfilled", "audios/fetchAudios/rejected"})
        /\ action'.http = "failed")
          => (/\ Own(store').error # Null
              /\ Own(store').items = Own(store).items)]_vars

----------------------------------------------------------------------------
\* C3

\* C3, as stated: lastFetched and lastFetchedFolders change to a non-null
\* timestamp only in a step that completes a list fetch whose request
\* succeeded.
C3_StampedOnlyBySuccess ==
    [][\A f \in {"lastFetched", "lastFetchedFolders"} \cap DOMAIN Own(store) :
          (Own(store')[f] # Own(store)[f] /\ Own(store')[f] # NoTime)
             => (/\ Completes({t \o "/fulfilled" : t \in ListFetches})
                 /\ action'.http = "ok")]_vars

----------------------------------------------------------------------------
\* C4

\* The fulfilled mutations that splice the cached list, and the actions that
\* invalidate the cache.
Splicing ==
    {"tracks/createTrack/fulfilled", "tracks/updateTrack/fulfilled",
     "tracks/deleteTrack/fulfilled", "playlists/createPlaylist/fulfilled",
     "playlists/updatePlaylist/fulfilled", "playlists/deletePlaylist/fulfilled",
     "pages/deletePage/fulfilled", "contacts/deleteContact/fulfilled",
     "images/deleteImage/fulfilled"}

Invalidating ==
    {"pages/createPage/fulfilled", "pages/updatePage/fulfilled", "pages/clearPages",
     "pages/forceRefresh", "contacts/clearContacts", "images/clearImages",
     "audios/clearAudios", "dashboard/clearDashboardData"}

\* C4, as stated: after any create, update or delete that succeeded and after
\* any cache-clear action, the slice's lastFetched is null.
C4_EveryMutationInvalidates ==
    action.type \in Splicing \cup Invalidating => Own(store).lastFetched = NoTime

\* C4, as the code has it: after a page create or update that succeeded and
\* after any cache-clear action the slice's lastFetched is null; a track,
\* playlist, page, contact or image mutation that splices the cached list
\* leaves lastFetched as it was.
C4_InvalidationByPagesAndClears ==
    [][/\ action'.type \in Invalidating => Own(store').lastFetched = NoTime
       /\ Completes(Splicing) => Own(store').lastFetched = Own(store).lastFetched]_vars

\* A page was just created or updated over a list that had been fetched.
C4_Witness ==
    /\ action.type \in {"pages/createPage/fulfilled", "pages/updatePage/fulfilled"}
    /\ store.pages.items # <<>>
    /\ store.pages.lastFetched = NoTime

----------------------------------------------------------------------------
\* C5

\* C5, as stated: a list fetch that succeeds in pages, tracks, playlists or
\* contacts replaces items with the payload's, takes totalItems and
\* totalPages from the response, and leaves page and pageSize as the client
\* held them.
C5_ClientOwnsPageAndSize ==
    [][Completes({"tracks/fetchTracks/fulfilled", "playlists/fetchPlaylists/fulfilled",
                  "pages/fetchPages/fulfilled", "contacts/fetchContacts/fulfilled"})
          => LET payload == action'.payload
                 listed == CASE action'.type = "tracks/fetchTracks/fulfilled" -> payload.tracks
                             [] action'.type = "playlists/fetchPlaylists/fulfilled" ->
                                   payload.playlists
                             [] action'.type = "pages/fetchPages/fulfilled" -> payload.pages
                             [] OTHER -> payload.contacts
             IN  /\ Own(store').items = listed
                 /\ Own(store').pagination.totalItems = payload.pagination.totalItems
                 /\ Own(store').pagination.totalPages = payload.pagination.totalPages
                 /\ Own(store').pagination.page = Own(store).pagination.page
                 /\ Own(store').pagination.pageSize = Own(store).pagination.pageSize]_vars

----------------------------------------------------------------------------
\* C6

\* C6: when a view's fetch effect runs and the timestamp it checks is null or
\* older than the cache duration, a fetch is dispatched, whatever the
\* parameters.
C6_StaleCacheIsFetched ==
    [][(EffectRuns /\ (Stamp(store) = NoTime \/ now - Stamp(store) > Duration))
          => Fetches]_vars

\* TrackList just dispatched a fetch for a list it had fetched with the same
\* parameters more than the cache duration ago.
C6_Witness ==
    /\ focus = "tracks"
    /\ action = Pending("tracks/fetchTracks", TrackListParams(store.tracks))
    /\ Len(inflight) = 1
    /\ store.tracks.lastFetched # NoTime
    /\ now - store.tracks.lastFetched > TracksCacheDuration
    /\ store.tracks.lastFetchParams = <<TrackListParams(store.tracks)>>

----------------------------------------------------------------------------
\* C7

\* C7, as stated: when a view's fetch effect runs while the cache is younger
\* than the cache duration and the current parameters are those of the last
\* list fetch that succeeded, no fetch is dispatched.
C7_FreshCacheIsServed ==
    [][(/\ EffectRuns
        /\ Stamp(store) # NoTime
        /\ now - Stamp(store) < Duration
        /\ fetched = <<CurrentParams>>)
          => inflight' = inflight]_vars

----------------------------------------------------------------------------
\* C8

\* C8: when the fetch effect of TrackList or PlaylistList runs and a current
\* parameter differs from its field of lastFetchParams, a fetch with the
\* current parameters is dispatched, however young the cache is.
C8_ChangedParamsAreFetched ==
    [][(/\ EffectRuns
        /\ focus \in {"tracks", "playlists"}
        /\ Own(store).lastFetchParams # <<>>
        /\ \E f \in DOMAIN CurrentParams :
              CurrentParams[f] # Own(store).lastFetchParams[1][f])
          => (/\ Fetches
              /\ inflight'[Len(inflight')].type \in {"tracks/fetchTracks",
                                                     "playlists/fetchPlaylists"}
              /\ inflight'[Len(inflight')].arg = CurrentParams)]_vars

\* A list view just dispatched a fetch with parameters other than those of
\* the list it fetched within the cache duration.
C8_Witness ==
    /\ focus \in {"tracks", "playlists"}
    /\ Len(inflight) = 1
    /\ action = Pending(inflight[1].type, CurrentParams)
    /\ Own(store).lastFetched # NoTime
    /\ now - Own(store).lastFetched < Duration
    /\ Own(store).lastFetchParams # <<>>
    /\ Own(store).lastFetchParams[1] # CurrentParams

----------------------------------------------------------------------------
\* C9

\* C9: when a track or playlist create succeeds, the new item is the first of
\* items and the previous items follow in their order, totalItems is one
\* more, and totalPages, page and pageSize are unchanged.
C9_CreatePrepends ==
    [][Completes({"tracks/createTrack/fulfilled", "playlists/createPlaylist/fulfilled"})
          => (/\ Own(store').items = <<action'.payload>> \o Own(store).items
              /\ Own(store').pagination =
                    [Own(store).pagination EXCEPT !.totalItems = @ + 1])]_vars

\* An item was just created in front of two listed ones.
C9_Witness ==
    /\ action.type \in {"tracks/createTrack/fulfilled", "playlists/createPlaylist/fulfilled"}
    /\ Len(Own(store).items) = 3
    /\ Own(store).items[1] = action.payload
    /\ Own(store).pagination.totalItems = 3

----------------------------------------------------------------------------
\* C10

\* C10: when a delete succeeds in tracks, playlists, pages or contacts, no
\* item of items has the deleted key, the other items keep their order, and
\* totalItems is one less.
C10_DeleteRemoves ==
    [][Completes({"tracks/deleteTrack/fulfilled", "playlists/deletePlaylist/fulfilled",
                  "pages/deletePage/fulfilled", "contacts/deleteContact/fulfilled"})
          => (/\ \A k \in 1..Len(Own(store').items) :
                    Own(store').items[k]._id # action'.payload
              /\ Own(store').items =
                    SelectSeq(Own(store).items, LAMBDA x : x._id # action'.payload)
              /\ Own(store').pagination.totalItems =
                    Own(store).pagination.totalItems - 1)]_vars

\* An item was just deleted from between two others.
C10_Witness ==
    /\ action.type \in {"tracks/deleteTrack/fulfilled", "playlists/deletePlaylist/fulfilled"}
    /\ inflight = <<>>
    /\ Len(Own(store).items) = 2
    /\ Own(store).items[1]._id > action.payload
    /\ Own(store).items[2]._id < action.payload
    /\ Own(store).pagination.totalItems = 2

----------------------------------------------------------------------------
\* C11

\* The deletes of the lists that are paginated by page number.
ListDeletes ==
    {"tracks/deleteTrack/fulfilled", "playlists/deletePlaylist/fulfilled",
     "pages/deletePage/fulfilled", "contacts/deleteContact/fulfilled"}

\* This step completes the delete of the only item of a page after the first.
DeletesLastOfPage ==
    /\ Completes(ListDeletes)
    /\ view.mounted
    /\ Own(store).pagination.page > 1
    /\ Len(Own(store).items) = 1
    /\ Own(store).items[1]._id = action'.payload

\* C11, as stated: when a delete succeeds that removes the only item of a page
\* after the first, in tracks, playlists, pages or contacts, the page is one
\* less and the fetch effect of the list is due.
C11_PageUnderflow ==
    [][DeletesLastOfPage
          => (/\ Own(store').pagination.page = Own(store).pagination.page - 1
              /\ view'.effect)]_vars

----------------------------------------------------------------------------
\* C12

\* The slices with a create and a delete, by the view in focus.
Creating == {"tracks", "playlists", "pages", "pagesCached"}

\* The slice's create and delete thunks, fulfilled for the item the server
\* created.
CreateFulfilled ==
    [type |-> CASE focus = "tracks" -> "tracks/createTrack/fulfilled"
                [] focus = "playlists" -> "playlists/createPlaylist/fulfilled"
                [] OTHER -> "pages/createPage/fulfilled",
     payload |-> CreatedItem]

DeleteFulfilled ==
    [type |-> CASE focus = "tracks" -> "tracks/deleteTrack/fulfilled"
                [] focus = "playlists" -> "playlists/deletePlaylist/fulfilled"
                [] OTHER -> "pages/deletePage/fulfilled",
     payload |-> CreatedItem._id]

\* C12, as stated: in tracks, playlists and pages, whatever the slice holds,
\* a create that succeeds followed at once by the delete of the created item
\* leaves totalItems and items as they were before the create.
C12_CreateDeleteRoundTrip ==
    (focus \in Creating /\ ~Listed(Own(store).items, CreatedItem._id))
       => LET after == Own(ReduceAll(store, <<CreateFulfilled, DeleteFulfilled>>))
          IN  /\ after.pagination.totalItems = Own(store).pagination.totalItems
              /\ after.items = Own(store).items

----------------------------------------------------------------------------
\* C13

\* The updates that splice the cached list.
ListUpdates ==
    {"tracks/updateTrack/fulfilled", "playlists/updatePlaylist/fulfilled",
     "playlists/addTracksToPlaylist/fulfilled",
     "playlists/removeTrackFromPlaylist/fulfilled"}

\* C13: when an update of a track or a playlist succeeds (adding tracks to a
\* playlist and removing one included), the item with the payload's _id, if
\* items holds one, is replaced by the payload at its index and every other
\* index keeps its item; if items holds none, items is unchanged; the length
\* of items and the pagination are unchanged in both cases.
C13_UpdateReplacesInPlace ==
    [][Completes(ListUpdates)
          => LET old == Own(store).items
                 new == Own(store').items
             IN  /\ Len(new) = Len(old)
                 /\ \A k \in 1..Len(old) :
                       new[k] = IF old[k]._id = action'.payload._id
                                THEN action'.payload
                                ELSE old[k]
                 /\ Own(store').pagination = Own(store).pagination]_vars

\* A listed item was just updated between its neighbours, which are as listed.
C13_Witness ==
    /\ action.type \in ListUpdates
    /\ Len(Own(store).items) = 2
    /\ Own(store).items[2] = action.payload
    /\ Own(store).items[2].rev = 1
    /\ Own(store).items[1].rev = 0

\* An item that is not listed was just updated: the list is as it was fetched.
C13_WitnessNotListed ==
    /\ action.type \in ListUpdates
    /\ Own(store).items # <<>>
    /\ ~Listed(Own(store).items, action.payload._id)

----------------------------------------------------------------------------
\* C14

\* C14: when a create or an update of a page succeeds, the pages slice has
\* lastFetched = null and the items and pagination it had, and the fetch
\* effect of the list is due; and when the fetch effect of a page list runs
\* over lastFetched = null, it dispatches fetchPages.
C14_PageWriteInvalidates ==
    [][/\ Completes({"pages/createPage/fulfilled", "pages/updatePage/fulfilled"})
             => (/\ store'.pages.lastFetched = NoTime
                 /\ store'.pages.items = store.pages.items
                 /\ store'.pages.pagination = store.pages.pagination
                 /\ view'.mounted /\ view'.effect)
       /\ (/\ EffectRuns
           /\ focus \in {"pages", "pagesCached"}
           /\ store.pages.lastFetched = NoTime)
             => (Fetches /\ inflight'[Len(inflight')].type = "pages/fetchPages")]_vars

\* The cached page list, on its first page, is fetching again over the items
\* it had: a page was created or updated since they were fetched.
C14_Witness ==
    /\ focus = "pagesCached"
    /\ action.type = "pages/fetchPages/pending"
    /\ Len(inflight) = 1
    /\ store.pages.items # <<>>
    /\ store.pages.lastFetched = NoTime
    /\ store.pages.pagination.page = 1
    /\ store.pages.pagination.pageSize = 10

----------------------------------------------------------------------------
\* C15

\* The lists that are searched and filtered by the server.
Filterable == {"tracks", "playlists", "pages", "contacts"}

\* The committed search term and filter values of the list in focus.
Filters ==
    CASE focus = "tracks" ->
            <<store.tracks.searchTerm, store.tracks.categoryFilter, store.tracks.authorFilter>>
      [] focus = "playlists" ->
            <<store.playlists.searchTerm, store.playlists.createdByFilter,
              store.playlists.isPublicFilter, store.playlists.tagFilter>>
      [] focus = "pages" -> <<view.local.searchTerm, view.local.selectedGroupFilter>>
      [] focus = "contacts" -> <<view.local.searchTerm>>
      [] OTHER -> <<>>

\* C15, as stated: in tracks, playlists, pages and contacts, a step that
\* changes the committed search term or a filter value leaves the page at 1
\* and dispatches no fetch, and every fetch of the list is dispatched with the
\* page and the search term and filters of that moment: no fetch combines a
\* new search term or filter with the page of the old one.
C15_FilterChangeResetsPage ==
    [][(focus \in Filterable) =>
          (/\ (Filters' # Filters) =>
                  (Own(store').pagination.page = 1 /\ inflight' = inflight)
           /\ (EffectRuns /\ Fetches) =>
                  (inflight'[Len(inflight')].arg = CurrentParams))]_vars

\* C15, as the code has it: the same of every step of a list that stays
\* mounted, where the search term and the filters change in a handler.  (When
\* PageList or ContactList is left, the search term and group filter of its
\* component state are lost and the slice keeps its page: the list opened
\* again fetches that page with no search term.)
C15_HandlersResetPage ==
    [][(focus \in Filterable /\ view.mounted /\ view'.mounted) =>
          (/\ (Filters' # Filters) =>
                  (Own(store').pagination.page = 1 /\ inflight' = inflight)
           /\ (EffectRuns /\ Fetches) =>
                  (inflight'[Len(inflight')].arg = CurrentParams))]_vars

\* A list that was fetched on its second page is being fetched on its first,
\* for a search term committed since.
C15_Witness ==
    /\ focus \in Filterable
    /\ view.mounted
    /\ action.type \in {t \o "/pending" : t \in ListFetches}
    /\ action.meta.arg.page = 1
    /\ action.meta.arg.search = "a"
    /\ fetched # <<>>
    /\ fetched[1].page = 2
    /\ fetched[1].search # "a"

----------------------------------------------------------------------------
\* C16

LoadMores == {"images/loadMoreImages", "audios/loadMoreAudios"}

\* C16: in images and audios, dispatching a load-more sets loadingMore and
\* leaves loading as it was; when its request succeeds, items is the previous
\* items followed by the items of the response in their order, nextCursor is
\* the cursor of the response, or null if it has none, hasMore is that of the
\* response, loadingMore is false, and loading and lastFetched are unchanged.
C16_LoadMoreAppends ==
    [][/\ (/\ Len(inflight') = Len(inflight) + 1
           /\ inflight'[Len(inflight')].type \in LoadMores)
             => (/\ Own(store').loadingMore
                 /\ Own(store').loading = Own(store).loading
                 /\ Own(store').items = Own(store).items
                 /\ Own(store').lastFetched = Own(store).lastFetched)
       /\ (Completes({t \o "/fulfilled" : t \in LoadMores}) /\ action'.http = "ok")
             => LET page == IF focus = "images" THEN action'.payload.images
                            ELSE action'.payload.audios
                IN  /\ Own(store').items = Own(store).items \o page
                    /\ Own(store').nextCursor =
                          IF action'.payload.nextCursor = Undef THEN Null
                          ELSE action'.payload.nextCursor
                    /\ Own(store').hasMore = action'.payload.hasMore
                    /\ ~Own(store').loadingMore
                    /\ Own(store').loading = Own(store).loading
                    /\ Own(store').lastFetched = Own(store).lastFetched]_vars

\* Two listed items were just followed by the one of the last page: no cursor
\* is left and nothing more to load.
C16_Witness ==
    /\ action.type \in {t \o "/fulfilled" : t \in LoadMores}
    /\ action.http = "ok"
    /\ Len(Own(store).items) = 3
    /\ Own(store).items[3] = Image(3)
    /\ action.payload.nextCursor = Undef
    /\ Own(store).nextCursor = Null
    /\ ~Own(store).hasMore
    /\ Own(store).lastFetched # NoTime

----------------------------------------------------------------------------
\* C17

\* This step is a step of the session, of that type.
SessionStep(type) == session' # session /\ session'.event.type = type

\* The failures of a verify request other than a 401.
VerifyFailures == {"500", "network error", "timeout"}

\* C17: a step of the bootstrap (its effect, or the answer to a verify
\* request, first or retried) removes the stored token if and only if it is
\* the effect finding the token expired or undecodable, or the answer is a
\* 401; no 5xx, network error or timeout removes it.
C17_TokenRemovedOnlyWhenInvalid ==
    [][(SessionStep("bootstrap") \/ SessionStep("verify")) =>
          (/\ (session'.storage # session.storage) => (session'.storage = <<>>)
           /\ (session.storage # <<>>) =>
                 ((session'.storage = <<>>) <=>
                     (\/ /\ session'.event.type = "bootstrap"
                         /\ (\/ ~session.storage[1].decodable
                             \/ session.storage[1].exp < now)
                      \/ /\ session'.event.type = "verify"
                         /\ session'.event.status = "401")))]_vars

\* The retry of a verify request has just failed with a 500: the token is
\* stored, the next retry is scheduled.
C17_Witness ==
    /\ session.event = Event("verify", "500", 1)
    /\ session.storage # <<>>
    /\ session.verify.phase = "timer"

----------------------------------------------------------------------------
\* C18

\* C18, as stated: when a verify request fails other than with a 401, the
\* session is authenticated from then on, while the retries run and after the
\* last of them.
C18_NetworkFailureKeepsAuthenticated ==
    [][(SessionStep("verify") /\ session'.event.status \in VerifyFailures)
          => session'.isAuthenticated]_vars

----------------------------------------------------------------------------
\* C19

\* C19: no more than 3 verify requests are sent per page load; when the
\* request with retryCount k fails other than with a 401, the next is
\* scheduled 2^k seconds later if k is 0 or 1, and if k is 2 none is scheduled
\* and the token stays in storage; and a verification under way comes to its
\* end.
C19_VerifyTerminates ==
    /\ [](session.sent <= 3)
    /\ [][(SessionStep("verify") /\ session'.event.status \in VerifyFailures)
             => IF session.verify.retryCount \in {0, 1}
                THEN /\ session'.verify.phase = "timer"
                     /\ session'.verify.delay = 2 ^ session.verify.retryCount
                     /\ session'.verify.retryCount = session.verify.retryCount + 1
                ELSE /\ session'.verify.phase = "idle"
                     /\ session'.storage = session.storage]_vars
    /\ (session.verify.phase # "idle") ~> (session.verify.phase = "idle")

\* The third verify request has just failed as the two before: none is
\* scheduled and the token is stored.
C19_Witness ==
    /\ session.event = Event("verify", "network error", 2)
    /\ session.sent = 3
    /\ session.verify.phase = "idle"
    /\ session.storage # <<>>
    /\ ~session.isAuthenticated

----------------------------------------------------------------------------
\* C20

\* A request of the API client is answered 401 in this step.
ApiUnauthorized == inflight # <<>> /\ SessionStep("api")

----------------------------------------------------------------------------
\* C21

\* The slices that cache a list of items.
ItemSlices == {"tracks", "playlists", "pages", "contacts", "images", "audios"}

\* No slice of the store `st` caches anything: the items are empty and the
\* timestamps null.
NothingCached(st) ==
    /\ \A v \in ItemSlices : st[v].items = <<>> /\ st[v].lastFetched = NoTime
    /\ st.dashboard.recentPages = <<>> /\ st.dashboard.lastFetched = NoTime

\* C21: the logout clears every cache, each slice's items being empty and its
\* lastFetched null after it, so that the session of the next login starts on
\* a store that caches nothing of the session before.
C21_LogoutClearsCaches ==
    [][/\ SessionStep("logout") => NothingCached(store')
       /\ (SessionStep("login") /\ session'.isAuthenticated) => NothingCached(store')]_vars

----------------------------------------------------------------------------
\* C22

\* The list a fulfilled fetch carries, and the total it counts.
Received(act) ==
    CASE act.type = "tracks/fetchTracks/fulfilled" -> act.payload.tracks
      [] act.type = "playlists/fetchPlaylists/fulfilled" -> act.payload.playlists
      [] act.type = "pages/fetchPages/fulfilled" -> act.payload.pages
      [] act.type = "contacts/fetchContacts/fulfilled" -> act.payload.contacts
      [] act.type = "images/fetchImages/fulfilled" -> act.payload.images
      [] act.type = "audios/fetchAudios/fulfilled" -> act.payload.audios
      [] act.type = "dashboard/fetchDashboardData/fulfilled" -> act.payload.recentPages

FetchesFulfilled == {type \o "/fulfilled" : type \in ItemFetches}

\* The paginated lists, whose fetch also writes the total and the search term.
Paged == {"tracks", "playlists", "pages", "pagesCached", "contacts"}

\* C22: the answers of a slice's fetches are applied in the order they arrive.
\* Whatever else is or was in flight, and whichever was dispatched first, the
\* slice holds after a fetch is fulfilled the items of that answer (and with
\* them the total, the search term, the cursor it carries): once two fetches
\* completed, the slice shows the one that completed last.
C22_LastCompletedWins ==
    [][Completes(FetchesFulfilled)
          => (/\ Cached(store').items = Received(action')
              /\ ~Own(store').loading
              /\ (focus \in Paged)
                    => (/\ Own(store').pagination.totalItems
                              = action'.payload.pagination.totalItems
                        /\ Own(store').searchTerm = action'.payload.searchTerm)
              /\ (focus \in {"images", "audios"})
                    => (/\ Own(store').hasMore = action'.payload.hasMore
                        /\ Own(store').nextCursor
                              = OrElse(action'.payload.nextCursor, Null)))]_vars

\* The list is on its second page, whose fetch was dispatched after the fetch
\* of the first and answered before it: the answer for the first page came
\* last, and its items are shown.
C22_Witness ==
    /\ focus \in {"contacts", "pages"}
    /\ inflight = <<>>
    /\ action.type \in FetchesFulfilled
    /\ action.meta.arg.page = 1
    /\ Own(store).pagination.page = 2
    /\ Own(store).items = Received(action)
    /\ Own(store).items # <<>>

----------------------------------------------------------------------------
\* C23

\* The flag that shows the fetch `type` of the slice `state` in progress.
LoadingOf(state, type) ==
    IF type = "audios/fetchAudioFolders" THEN state.loadingFolders ELSE state.loading

\* C23: a list fetch that is dispatched clears the slice's error and sets its
\* loading flag; the pages slice alone sets the flag exactly when it has no
\* items cached at that moment, and leaves it false over cached items.
C23_FetchShowsLoading ==
    [][Fetches
          => LET type == inflight'[Len(inflight')].type
             IN  /\ Own(store').error = Null
                 /\ LoadingOf(Own(store'), type)
                       = IF focus \in {"pages", "pagesCached"}
                         THEN Own(store).items = <<>>
                         ELSE TRUE]_vars

----------------------------------------------------------------------------
\* C24

\* The views with a staleness check.
Quiescent == {"pages", "pagesCached", "tracks", "playlists", "images", "audios", "dashboard"}

\* This step is the user's: no effect runs in it, no request is dispatched or
\* answered, and the clock stays.
UserActs == ~EffectRuns /\ inflight' = inflight /\ now' = now

\* C24: a list view left alone comes to rest, on whatever page and page size
\* it is.  Fetches are dispatched again and again only if the user acts again
\* and again: after the user's last action, and the last expiry of the cache,
\* the fetch that succeeded is not followed by another.
C24_Quiescence ==
    (focus \in Quiescent) => (([]<><<Fetches>>_vars) => ([]<><<UserActs>>_vars))

----------------------------------------------------------------------------
\* C25

\* The startup verification has not come to an end: the bootstrap effect has
\* not run, a verify request is in flight, or a retry is scheduled.
Unresolved(s) == ~s.booted \/ s.verify.phase # "idle"

\* C25: while the startup verification is unresolved, AuthProvider's loading
\* flag is true, so that ProtectedRoute shows its skeleton and does not
\* navigate to the login page.
C25_NoRedirectWhileVerifying ==
    Unresolved(session) => (session.loading /\ ProtectedRoute(session) # "login")

----------------------------------------------------------------------------
\* C26

\* C26: however logins, logouts, verify responses and verify retries
\* interleave, a session that is authenticated has a token in storage and
\* shows the user who owns it (the one account of the backend here).
C26_AuthenticatedHasToken ==
    session.isAuthenticated => (session.storage # <<>> /\ session.user = "admin")

----------------------------------------------------------------------------
\* C27

\* The request at position k of `inflight` is the delete of a page or of a
\* contact, and this step rejects it.
RejectsDelete(k) ==
    /\ inflight[k].type \in {"pages/deletePage", "contacts/deleteContact"}
    /\ inflight' = Remove(inflight, k)
    /\ action'.type = inflight[k].type \o "/rejected"
    /\ action'.meta.arg = inflight[k].arg

\* C27: when the delete of a page or a contact is rejected, the items, the
\* total and the page are what they were when the delete was dispatched (the
\* view does not step back a page), and the slice's error records the
\* failure.
C27_RejectedDeleteKeepsList ==
    [][\A k \in 1..Len(inflight) :
          RejectsDelete(k)
             => (/\ Own(store').items = inflight[k].before.items
                 /\ Own(store').pagination.totalItems
                       = inflight[k].before.pagination.totalItems
                 /\ Own(store').pagination.page = inflight[k].before.pagination.page
                 /\ Own(store').error # Null)]_vars

----------------------------------------------------------------------------
\* C28

\* The request `req` set the slice's loading flag when it was dispatched: a
\* list fetch (of the pages slice that spares the spinner, one dispatched over
\* an empty list), or a create, update or delete of tracks, playlists or
\* images.
SetLoading(req) ==
    \/ /\ req.type \in ItemFetches
       /\ (focus = "pages") => (req.before.items = <<>>)
    \/ req.type \in {"tracks/createTrack", "tracks/updateTrack", "tracks/deleteTrack",
                     "playlists/createPlaylist", "playlists/updatePlaylist",
                     "playlists/deletePlaylist", "playlists/addTracksToPlaylist",
                     "playlists/removeTrackFromPlaylist", "images/deleteImage"}

\* C28: a slice is loading as long as one of the requests that set its loading
\* flag is in flight; the completion of one of them does not turn the flag off
\* while another is pending.
C28_LoadingWhileInFlight ==
    (\E k \in 1..Len(inflight) : SetLoading(inflight[k])) => Own(store).loading

----------------------------------------------------------------------------
\* C29

\* The search term the user committed last: PageList and ContactList keep it
\* in the view, TrackList and PlaylistList in the slice.
UserTerm ==
    IF focus \in {"pages", "contacts"} THEN view.local.searchTerm ELSE Own(store).searchTerm

\* The filter values of the slice `state`, the search term apart.
FilterValues(state) ==
    CASE focus = "tracks" -> <<state.categoryFilter, state.authorFilter>>
      [] focus = "playlists" ->
            <<state.createdByFilter, state.isPublicFilter, state.tagFilter>>
      [] focus \in {"pages", "pagesCached"} -> <<state.groupFilter>>
      [] OTHER -> <<>>

\* C29: the completion of a fetch leaves the search term, the filters and the
\* page of the slice at what the user set last, also when the user set them
\* while that fetch was in flight.
C29_CompletionKeepsUserValues ==
    [][(focus \in Paged /\ Completes(FetchesFulfilled))
          => (/\ Own(store').searchTerm = UserTerm
              /\ FilterValues(Own(store')) = FilterValues(Own(store))
              /\ Own(store').pagination.page = Own(store).pagination.page)]_vars

----------------------------------------------------------------------------
\* C30

\* This step completes a load-more whose request failed.
LoadMoreFails ==
    /\ Len(inflight') < Len(inflight)
    /\ action'.type \in {t \o end : t \in LoadMores, end \in {"/fulfilled", "/rejected"}}
    /\ action'.http = "failed"

\* C30: a load-more of images or audios that fails leaves the items, the
\* cursor and hasMore as they were and sets the slice's error: hasMore does
\* not go from true to false, and the same cursor can be tried again.
C30_FailedLoadMoreKeepsCursor ==
    [][LoadMoreFails
          => (/\ Own(store').items = Own(store).items
              /\ Own(store').nextCursor = Own(store).nextCursor
              /\ Own(store').hasMore = Own(store).hasMore
              /\ Own(store').error # Null)]_vars

====
